---- MODULE Spec2Model ----
(***************************************************************************)
(* A model of the AI-styler recommendation core:                           *)
(*   services/marketplace.py      catalog aggregation and deduplication    *)
(*   services/recommendations.py  scoring, selection, outfit composition   *)
(*                                                                         *)
(* Python values are modelled as follows.  None in a text field is the     *)
(* string None; None in a number field is NoInt.  A list is a sequence, a  *)
(* dict a record, a call's outcome is Return(value) or Raise(type, msg).   *)
(* One behaviour is one request: the collaborators' state (the static      *)
(* catalog file, the two provider sites, the inventory, the profile) is    *)
(* drawn in the initial state and one operation is then applied to it.     *)
(* Two specifications take more than one step: the paginated fetch of      *)
(* services/sources.py runs one page request at a time, and the render     *)
(* cycle of app.py runs one render after another on the session's options. *)
(***************************************************************************)
EXTENDS Integers, Sequences, FiniteSets, TLC

VARIABLES
    static_catalog,   \* data/catalog.json: [state, records]
    musinsa_site,     \* what search.musinsa.com serves: [fault, listing], or page by
                      \* page [resolvable, sections, rest] for the paginated fetch
    kream_site,       \* what kream.co.kr serves: [fault, listing]
    inventory_file,   \* data/inventory.json: the stored records, in order
    inventory_df,     \* the inventory rows, in row order
    profile,          \* [style_preferences, season, budget]
    catalog_options,  \* st.session_state.catalog_options of the application
    fetch,            \* the locals of a running fetch_musinsa_catalog
    call,             \* the operation applied and its arguments
    ret               \* its outcome

vars == <<static_catalog, musinsa_site, kream_site, inventory_file, inventory_df, profile,
          catalog_options, fetch, call, ret>>

world == <<static_catalog, musinsa_site, kream_site, inventory_file, inventory_df, profile,
           catalog_options, fetch>>

----------------------------------------------------------------------------
(* Bounds of the model *)

\* number of ranking sections (category codes) a paginated fetch walks
MaxCat == 2

\* most pages the ranking sections list explicitly, all sections together
MaxPages == 2

\* largest small limit of a paginated fetch
MaxLimit == 2

\* longest listing a source (file or provider) holds, the five-item
\* listing of the end-to-end scenario apart
MaxSrc == 2

\* longest candidate list handed to _deduplicate on its own
MaxList == 3

\* most rows an inventory holds
MaxInv == 5

\* largest budget (in 10,000 won) whose prices are scored one by one
MaxBudget == 3

\* most tokens a tag value (style tags, seasons) holds when an alignment is
\* applied on its own
MaxTags == 2

\* most records the inventory file holds
MaxStore == 2

\* most words a raw category hint holds
MaxHint == 2

----------------------------------------------------------------------------
(* The program's Korean string literals, written in ASCII: a word in <...>  *)
(* stands for the Korean word the source writes (<Musinsa> for 무신사,       *)
(* <Keurim> for 크림, <static catalog> for 정적 카탈로그).                   *)

TOP == "top"                 \* "상의"
PANTS == "pants"             \* "바지"
SKIRT == "skirt"             \* "스커트"
ONEPIECE == "onepiece"       \* "원피스"
SHOES == "shoes"             \* "신발"
OUTER == "outer"             \* "아우터"
CAP == "cap"                 \* "모자"
ACCESSORY == "accessory"     \* "액세서리"
ETC == "etc"                 \* "기타"
ALL_SEASON == "all_season"   \* "사계절"

----------------------------------------------------------------------------
(* Python values *)

None == "<None>"

NoInt == 0 - 1

\* str.strip() of the tokens the model writes
Strip(token) ==
    IF token = " " THEN ""
    ELSE IF token = " street" THEN "street"
    ELSE IF token = "minimal " THEN "minimal"
    ELSE token

\* a key the dict does not hold
Absent == "<absent>"

Truthy(v) == v /= None /\ v /= ""

\* a tag value is [kind, toks]: a list of tokens, a comma-separated text (its
\* pieces between the commas), or None
TagList(toks) == [kind |-> "list", toks |-> toks]

TagStr(toks) == [kind |-> "str", toks |-> toks]

TagNone == [kind |-> "none", toks |-> <<>>]

Return(v) == [kind |-> "return", value |-> v]

Raise(type, msg) == [kind |-> "raise", exc |-> [type |-> type, msg |-> msg]]

NoExc == [type |-> None, msg |-> <<>>]

NoCall == [op |-> "none"]

NoRet == [kind |-> "none"]

\* no fetch_musinsa_catalog is running
NoFetch == [pc |-> "idle"]

\* the catalog options a new session starts with (app.py:30-38)
DefaultOptions ==
    [limit_total |-> 120, include_static |-> TRUE, include_musinsa |-> TRUE,
     include_kream |-> TRUE, per_category_cap |-> NoInt, refresh_static |-> TRUE]

\* items[:n]; a negative n counts from the end
Take(items, n) ==
    LET stop == IF n < 0 THEN Len(items) + n ELSE n
    IN SubSeq(items, 1, IF stop < Len(items) THEN stop ELSE Len(items))

SeqToSet(s) == {s[i] : i \in 1..Len(s)}

\* the classes that "except Exception" catches among those the model raises
ExceptionClasses == {"RuntimeError", "JSONDecodeError", "TypeError", "ValueError"}

----------------------------------------------------------------------------
(* Catalog items *)

CItem(name, category, price, url, sid, source) ==
    [name |-> name, category |-> category, price_krw |-> price,
     product_url |-> url, source_id |-> sid, source |-> source,
     style_tags |-> TagList(<<>>), season |-> TagList(<<ALL_SEASON>>)]

WithTags(item, tags, season) == [item EXCEPT !.style_tags = tags, !.season = season]

\* records of data/catalog.json; "source" may be missing from a record
S1 == WithTags(CItem("oxford shirt", TOP, 59000, "https://shop/p/1", None, "static"),
               TagList(<<"minimal">>), TagList(<<"spring", "fall">>))
S2 == WithTags(CItem("denim pants", PANTS, NoInt, None, None, Absent),
               TagStr(<<" street", "">>), TagStr(<<"summer", " ">>))

\* Musinsa listings; M1 has the product URL of S1
M1 == CItem("oxford shirt (musinsa)", TOP, 62000, "https://shop/p/1", "1", "musinsa")
M2 == CItem("wide slacks", PANTS, 80000, "https://shop/p/2", "2", "musinsa")
M3 == CItem("running shoes", SHOES, 139000, "https://shop/p/3", "3", "musinsa")
M4 == CItem("wool coat", OUTER, 250000, "https://shop/p/4", "4", "musinsa")
M5 == CItem("linen shirt", TOP, 45000, "https://shop/p/5", "5", "musinsa")

\* KREAM listings; K1 has the name of S2 and no URL or id, K2's id is M2's URL
K1 == CItem("denim pants", PANTS, 70000, None, None, "kream")
K2 == CItem("ball cap", CAP, NoInt, "", "https://shop/p/2", "kream")

----------------------------------------------------------------------------
(* Inventory rows and profiles *)

Row(name, category, color, season, style_tags) ==
    [name |-> name, category |-> category, color |-> color,
     season |-> TagList(season), style_tags |-> TagList(style_tags)]

InventoryUniverse ==
    <<Row("white shirt", TOP, <<"white">>, <<ALL_SEASON>>, <<"minimal">>),
      Row("graphic tee", TOP, <<"red">>, <<"summer">>, <<"street">>),
      Row("black slacks", PANTS, <<"black">>, <<ALL_SEASON>>, <<"minimal">>),
      Row("pleats skirt", SKIRT, <<"beige">>, <<"spring">>, <<>>),
      Row("mint dress", ONEPIECE, <<"mint">>, <<"summer">>, <<"minimal", "street">>),
      Row("sneakers", SHOES, <<"white">>, <<ALL_SEASON>>, <<"street">>),
      Row("trench coat", OUTER, <<"beige">>, <<"spring", "fall">>, <<"minimal">>),
      Row("padded jacket", OUTER, <<"blackwatch", "check">>, <<"winter">>, <<"minimal">>),
      Row("ball cap", CAP, <<"navy">>, <<ALL_SEASON>>, <<>>),
      Row("", CAP, <<>>, <<"winter">>, <<"street">>)>>

RECURSIVE RowsOf(_)
RowsOf(indices) ==
    IF indices = {} THEN <<>>
    ELSE LET i == CHOOSE x \in indices : \A y \in indices : x <= y
         IN <<InventoryUniverse[i]>> \o RowsOf(indices \ {i})

Reversed(rows) == [i \in 1..Len(rows) |-> rows[Len(rows) + 1 - i]]

\* the rows of any at most MaxInv items of the universe, in either order
Inventories ==
    LET picked == {RowsOf(I) : I \in {J \in SUBSET (1..Len(InventoryUniverse)) :
                                          Cardinality(J) <= MaxInv}}
    IN picked \cup {Reversed(rows) : rows \in picked}

Profiles ==
    [style_preferences : {TagList(<<>>), TagList(<<"minimal">>), TagList(<<"street">>),
                         TagList(<<"minimal", "street">>)},
     season : {TagList(<<>>), TagList(<<"summer">>), TagList(<<"winter">>)},
     budget : {NoInt}]

RECURSIVE SeqsUpTo(_, _)
SeqsUpTo(S, n) ==
    IF n = 0 THEN {<<>>}
    ELSE LET shorter == SeqsUpTo(S, n - 1)
         IN shorter \cup {Append(s, x) : s \in {t \in shorter : Len(t) = n - 1}, x \in S}

FiveItems == <<M1, M2, M3, M4, M5>>

StaticFiles ==
    {[state |-> "missing", records |-> <<>>], [state |-> "corrupt", records |-> <<>>]}
    \cup {[state |-> "ok", records |-> r] : r \in SeqsUpTo({S1, S2}, MaxSrc)}

MusinsaSites ==
    {[fault |-> f, listing |-> <<>>] : f \in {"dns", "5xx"}}
    \cup {[fault |-> None, listing |-> l] : l \in SeqsUpTo({M1, M2}, MaxSrc) \cup {FiveItems}}

\* a record with no URL, no id and no name
N0 == CItem(None, ETC, NoInt, None, None, "static")

CandidateLists == SeqsUpTo({S1, M1, M2, K2, N0}, MaxList)

KreamSites ==
    {[fault |-> f, listing |-> <<>>] : f \in {"conn"}}
    \cup {[fault |-> None, listing |-> l] : l \in SeqsUpTo({K1, K2}, MaxSrc)}

----------------------------------------------------------------------------
(* services/inventory.py: the inventory file *)

CATEGORY_OPTIONS == {TOP, PANTS, OUTER, SHOES, CAP, ONEPIECE, SKIRT, ACCESSORY, ETC}

\* _normalise_tags of inventory.py, the same code as that of recommendations.py
inventory_normalise_tags(raw_tags) ==
    IF raw_tags.kind = "none" THEN <<>>
    ELSE LET tags == [i \in 1..Len(raw_tags.toks) |-> Strip(raw_tags.toks[i])]
         IN SelectSeq(tags, LAMBDA tag : tag /= "")

\* _normalise_tags(x) or ["사계절"]
SeasonOrAllSeason(raw) ==
    LET tags == inventory_normalise_tags(raw)
    IN IF tags = <<>> THEN <<ALL_SEASON>> ELSE tags

\* the records of the file as a frame: tags normalised, a blank season filled
load_inventory(file) ==
    [i \in 1..Len(file) |->
        [file[i] EXCEPT !.style_tags = TagList(inventory_normalise_tags(@)),
                        !.season = TagList(SeasonOrAllSeason(@))]]

\* the frame as the records written to the file
save_inventory(df) ==
    [i \in 1..Len(df) |->
        [df[i] EXCEPT !.style_tags = TagList(inventory_normalise_tags(@)),
                      !.season = TagList(SeasonOrAllSeason(@))]]

\* lines 111-133: the record add_item creates
add_item_record(item_id, name, category, color, season, style_tags) ==
    [item_id |-> item_id,
     name |-> Strip(name),
     category |-> IF Truthy(category) THEN Strip(category) ELSE ETC,
     color |-> IF Truthy(color) THEN Strip(color) ELSE "",
     season |-> TagList(SeasonOrAllSeason(season)),
     style_tags |-> TagList(inventory_normalise_tags(style_tags))]

add_item(file, record) == save_inventory(Append(load_inventory(file), record))

remove_item(file, item_id) ==
    LET df == load_inventory(file)
    IN IF df = <<>> THEN file
       ELSE save_inventory(SelectSeq(df, LAMBDA row : row.item_id /= item_id))

----------------------------------------------------------------------------
(* services/sources.py: the adapters, as far as the aggregator sees them *)

RECURSIVE sources_dedup_loop(_, _, _)
sources_dedup_loop(items, seen, unique) ==
    IF items = <<>> THEN unique
    ELSE LET item == Head(items)
             key == IF Truthy(item.product_url) THEN item.product_url ELSE item.source_id
         IN IF ~Truthy(key)
            THEN sources_dedup_loop(Tail(items), seen, Append(unique, item))
            ELSE IF key \in seen
            THEN sources_dedup_loop(Tail(items), seen, unique)
            ELSE sources_dedup_loop(Tail(items), seen \cup {key}, Append(unique, item))

sources_deduplicate(items) == sources_dedup_loop(items, {}, <<>>)

\* A text is the sequence of its words, so that "word in text" can be asked.
MusinsaFaultMessage(fault) ==
    IF fault = "dns" THEN <<"search.musinsa.com", "cannot", "be", "resolved">>
    ELSE IF fault = "5xx" THEN <<"<Musinsa>", "server", "returned", "an", "error", "(500)">>
    ELSE <<"<Musinsa>", "server", "cannot", "be", "reached">>

KreamFaultMessage(fault) ==
    IF fault = "dns" THEN <<"kream.co.kr", "cannot", "be", "resolved">>
    ELSE IF fault = "5xx" THEN <<"KREAM", "server", "returned", "an", "error", "(500)">>
    ELSE <<"KREAM", "server", "cannot", "be", "reached">>

fetch_musinsa_catalog(site, limit) ==
    IF site.fault /= None THEN Raise("RuntimeError", MusinsaFaultMessage(site.fault))
    ELSE Return(Take(sources_deduplicate(site.listing), limit))

fetch_kream_catalog(site, limit) ==
    IF site.fault /= None THEN Raise("RuntimeError", KreamFaultMessage(site.fault))
    ELSE Return(Take(sources_deduplicate(site.listing), limit))

(* A category hint is absent (None) or a text, the sequence of its words;  *)
(* the empty text has no word, a blank text has the one word " ".          *)
NoHint == [present |-> FALSE, words |-> <<>>]

Hint(words) == [present |-> TRUE, words |-> words]

\* the keyword table of _normalise_category, in the order the dict lists it
Keywords ==
    <<[keyword |-> TOP, category |-> TOP],                \* "상의"
      [keyword |-> "tab", category |-> TOP],              \* "탑"
      [keyword |-> "shirt", category |-> TOP],            \* "셔츠"
      [keyword |-> "tshirt", category |-> TOP],           \* "티셔츠"
      [keyword |-> PANTS, category |-> PANTS],            \* "바지"
      [keyword |-> "paencheu", category |-> PANTS],       \* "팬츠"
      [keyword |-> "denim", category |-> PANTS],          \* "데님"
      [keyword |-> "jin", category |-> PANTS],            \* "진"
      [keyword |-> OUTER, category |-> OUTER],            \* "아우터"
      [keyword |-> "jacket", category |-> OUTER],         \* "재킷"
      [keyword |-> "coat", category |-> OUTER],           \* "코트"
      [keyword |-> "jumper", category |-> OUTER],         \* "점퍼"
      [keyword |-> SHOES, category |-> SHOES],            \* "신발"
      [keyword |-> "syujeu", category |-> SHOES],         \* "슈즈"
      [keyword |-> "sneaker", category |-> SHOES],        \* "스니커"
      [keyword |-> CAP, category |-> CAP],                \* "모자"
      [keyword |-> "kaep", category |-> CAP],             \* "캡"
      [keyword |-> "bucket", category |-> CAP],           \* "버킷"
      [keyword |-> "dress", category |-> ONEPIECE],       \* "드레스"
      [keyword |-> ONEPIECE, category |-> ONEPIECE],      \* "원피스"
      [keyword |-> SKIRT, category |-> SKIRT],            \* "스커트"
      [keyword |-> "akse", category |-> ACCESSORY],       \* "악세"
      [keyword |-> ACCESSORY, category |-> ACCESSORY],    \* "액세서리"
      [keyword |-> "baek", category |-> ACCESSORY],       \* "백"
      [keyword |-> "gabang", category |-> ACCESSORY]>>    \* "가방"

\* "keyword in word" for the words the model writes: 티셔츠 holds 셔츠,
\* 백팩 (backpack) holds 백, 사진 (photo) holds 진
WordHolds(word, keyword) ==
    \/ word = keyword
    \/ word = "tshirt" /\ keyword = "shirt"
    \/ word = "baekpaek" /\ keyword = "baek"
    \/ word = "sajin" /\ keyword = "jin"

\* keyword in text: no keyword has a space, so it lies within one word
KeywordIn(keyword, words) == \E i \in 1..Len(words) : WordHolds(words[i], keyword)

_normalise_category(raw) ==
    LET text == SelectSeq(raw.words, LAMBDA w : Strip(w) /= "")
        hits == {k \in 1..Len(Keywords) : KeywordIn(Keywords[k].keyword, text)}
    IN IF text = <<>> \/ hits = {} THEN ETC
       ELSE Keywords[CHOOSE k \in hits : \A j \in hits : k <= j].category

\* bool(category_hint): None and the empty text are false
HintGiven(category_hint) == category_hint.present /\ category_hint.words /= <<>>

\* a category that is the normalised hint whenever a hint is given
normalized_category_no_fallback(category_hint, label) ==
    IF HintGiven(category_hint) THEN _normalise_category(category_hint) ELSE label

\* fetch_musinsa_catalog, lines 255-259
normalized_category(category_hint, label) ==
    IF HintGiven(category_hint)
    THEN LET category == _normalise_category(category_hint)
         IN IF category = ETC THEN label ELSE category
    ELSE label

\* fetch_kream_catalog, lines 379-382
kream_category(category_hint, default_category) ==
    LET category == IF HintGiven(category_hint) THEN _normalise_category(category_hint)
                    ELSE default_category
    IN IF category = ETC THEN default_category ELSE category

\* the item fetch_musinsa_catalog appends for a listing node (lines 261-273)
musinsa_item(name, category_hint, label) ==
    CItem(name, normalized_category(category_hint, label), NoInt, None, None, "musinsa")

\* the item fetch_kream_catalog appends for a product (lines 389-401)
kream_item(name, category_hint, default_category) ==
    CItem(name, kream_category(category_hint, default_category), NoInt, None, None, "kream")

----------------------------------------------------------------------------
(* services/sources.py: the pagination of fetch_musinsa_catalog *)

\* "if page > 20: break", the safety stop
PageBound == 20

\* default_categories, the labels in the order of the list
default_categories == <<TOP, PANTS, OUTER, ONEPIECE, SKIRT, SHOES, CAP, ACCESSORY>>

\* the (category_code, label) pairs a fetch walks
categories == SubSeq(default_categories, 1, MaxCat)

(* A ranking page is the response to one request: a status and the li     *)
(* nodes of its body.  A node is a product ("1", "2": link, name and goods *)
(* code; "anon": link and name but no href and no goods code) or "junk",   *)
(* a node without link or name.                                            *)
Page(status, nodes) == [status |-> status, nodes |-> nodes]

\* page n of section c: a listed page, or what the site serves after them
PageAt(site, c, n) ==
    IF n <= Len(site.sections[c]) THEN site.sections[c][n]
    ELSE IF site.rest = "empty" THEN Page("ok", <<>>)
    ELSE IF site.rest = "junk" THEN Page("ok", <<"junk">>)
    ELSE Page("ok", <<"anon">>)

\* the item appended for a node that has link and name (lines 240-273)
node_item(node, label) ==
    IF node = "anon" THEN musinsa_item("item", NoHint, label)
    ELSE [musinsa_item("product", NoHint, label) EXCEPT
             !.product_url = IF node = "1" THEN "https://shop/p/1" ELSE "https://shop/p/2",
             !.source_id = node]

\* the for loop over the nodes: "if not link or not name_node: continue"
RECURSIVE page_items(_, _)
page_items(nodes, label) ==
    IF nodes = <<>> THEN <<>>
    ELSE (IF Head(nodes) = "junk" THEN <<>> ELSE <<node_item(Head(nodes), label)>>)
         \o page_items(Tail(nodes), label)

\* one pass through the body of "while len(category_results) < limit"
\* (lines 200-279): the request, the two raises, the two breaks, the nodes,
\* page += 1 and the safety stop
request_page(site, frame, limit) ==
    LET c == frame.category
        page == PageAt(site, c, frame.page)
        asked == [frame EXCEPT !.requests[c] = @ + 1]
    IN IF page.status = "5xx" \/ page.status = "conn"
       THEN [frame |-> [asked EXCEPT !.pc = "done"],
             outcome |-> Raise("RuntimeError", MusinsaFaultMessage(page.status))]
       ELSE IF page.status /= "ok" \/ page.nodes = <<>>
       THEN [frame |-> [asked EXCEPT !.pc = "extend"], outcome |-> NoRet]
       ELSE [frame |-> [asked EXCEPT !.category_results =
                                         @ \o page_items(page.nodes, categories[c]),
                                     !.page = @ + 1,
                                     !.pc = IF frame.page + 1 > PageBound
                                            THEN "extend" ELSE "while"],
             outcome |-> NoRet]

\* after the while loop (lines 281-285): results.extend(category_results[:limit]),
\* then the next category, or the return once limit is reached or the
\* categories are exhausted
end_category(frame, limit) ==
    LET results == frame.results \o Take(frame.category_results, limit)
    IN IF Len(results) >= limit \/ frame.category = Len(categories)
       THEN [frame |-> [frame EXCEPT !.results = results, !.pc = "done"],
             outcome |-> Return(Take(sources_deduplicate(results), limit))]
       ELSE [frame |-> [frame EXCEPT !.results = results, !.category = @ + 1, !.page = 1,
                                     !.category_results = <<>>, !.pc = "while"],
             outcome |-> NoRet]

----------------------------------------------------------------------------
(* services/marketplace.py *)

\* the loop over the records: a comma-separated style_tags text becomes the
\* list of its non-blank stripped pieces, and a record without "source" gets
\* "static"
StaticRecord(item) ==
    LET tags == item.style_tags
        split == IF tags.kind = "str"
                 THEN TagList(SelectSeq([i \in 1..Len(tags.toks) |-> Strip(tags.toks[i])],
                                        LAMBDA tag : tag /= ""))
                 ELSE tags
    IN [item EXCEPT !.style_tags = split,
                    !.source = IF item.source = Absent THEN "static" ELSE item.source]

_load_static_catalog(file) ==
    IF file.state = "missing" THEN Return(<<>>)
    ELSE IF file.state = "corrupt" THEN Raise("JSONDecodeError", <<"Expecting", "value">>)
    ELSE Return([i \in 1..Len(file.records) |-> StaticRecord(file.records[i])])

\* a key that asks for the source id before the product URL
DedupKeyIdFirst(item) ==
    IF Truthy(item.source_id) THEN item.source_id
    ELSE IF Truthy(item.product_url) THEN item.product_url
    ELSE item.name

\* item.get("product_url") or item.get("source_id") or item.get("name")
DedupKey(item) ==
    IF Truthy(item.product_url) THEN item.product_url
    ELSE IF Truthy(item.source_id) THEN item.source_id
    ELSE item.name

\* a deduplication that keeps the last occurrence of each key
RECURSIVE dedup_keep_last_loop(_, _)
dedup_keep_last_loop(items, results) ==
    IF items = <<>> THEN results
    ELSE LET item == Head(items)
             later == {DedupKey(Tail(items)[i]) : i \in 1..Len(Tail(items))}
         IN IF DedupKey(item) \in later
            THEN dedup_keep_last_loop(Tail(items), results)
            ELSE dedup_keep_last_loop(Tail(items), Append(results, item))

deduplicate_keep_last(items) == dedup_keep_last_loop(items, <<>>)

RECURSIVE dedup_loop(_, _, _)
dedup_loop(items, seen, results) ==
    IF items = <<>> THEN results
    ELSE LET item == Head(items)
             key == DedupKey(item)
         IN IF key \in seen
            THEN dedup_loop(Tail(items), seen, results)
            ELSE dedup_loop(Tail(items), seen \cup {key}, Append(results, item))

_deduplicate(items) == dedup_loop(items, {}, <<>>)

StaticPrefix == <<"<static catalog>", "load", "failed:">>     \* "정적 카탈로그 로드 실패: "
MusinsaPrefix == <<"<Musinsa>", "data", "collection", "failed:">>  \* "무신사 데이터 수집 실패: "
KreamPrefix == <<"<Keurim>", "data", "collection", "failed:">>     \* "크림 데이터 수집 실패: "

\* an error text without its source tag
ErrorStringUntagged(prefix, exc) == exc.msg

\* f"{prefix}{exc}"
ErrorString(prefix, exc) == prefix \o exc.msg

Catches(type) == type \in ExceptionClasses

\* a block without its failure boundary: the exception leaves load_catalog
TryExtendUnguarded(acc, enabled, outcome, prefix) ==
    IF acc.raised /= NoExc \/ ~enabled THEN acc
    ELSE IF outcome.kind = "return"
    THEN [acc EXCEPT !.aggregated = acc.aggregated \o outcome.value]
    ELSE [acc EXCEPT !.raised = outcome.exc]

\* one "try: aggregated.extend(<source>) except Exception as exc: errors.append(...)"
\* block; acc is [aggregated, errors, raised], raised an exception on its way out
TryExtend(acc, enabled, outcome, prefix) ==
    IF acc.raised /= NoExc \/ ~enabled THEN acc
    ELSE IF outcome.kind = "return"
    THEN [acc EXCEPT !.aggregated = acc.aggregated \o outcome.value]
    ELSE IF Catches(outcome.exc.type)
    THEN [acc EXCEPT !.errors = Append(acc.errors, ErrorString(prefix, outcome.exc))]
    ELSE [acc EXCEPT !.raised = outcome.exc]

LoadCatalogParams ==
    {"include_static", "include_musinsa", "include_kream", "musinsa_limit",
     "kream_limit", "musinsa_cookie", "kream_cookie", "include_meta"}

load_catalog(args, file, musinsa, kream) ==
    LET acc0 == [aggregated |-> <<>>, errors |-> <<>>, raised |-> NoExc]
        acc1 == TryExtend(acc0, args.include_static,
                          _load_static_catalog(file), StaticPrefix)
        acc2 == TryExtend(acc1, args.include_musinsa /\ args.musinsa_limit > 0,
                          fetch_musinsa_catalog(musinsa, args.musinsa_limit), MusinsaPrefix)
        acc3 == TryExtend(acc2, args.include_kream /\ args.kream_limit > 0,
                          fetch_kream_catalog(kream, args.kream_limit), KreamPrefix)
        deduplicated == _deduplicate(acc3.aggregated)
    IN IF acc3.raised /= NoExc THEN [kind |-> "raise", exc |-> acc3.raised]
       ELSE IF args.include_meta THEN Return([items |-> deduplicated, errors |-> acc3.errors])
       ELSE Return([items |-> deduplicated])

----------------------------------------------------------------------------
(* services/recommendations.py: tags and the alignment scores *)

(* A score is an exact fraction, held as a whole number of Unit-ths: 0.6 is *)
(* 3600.  A rounded score is a whole number of thousandths.                 *)
Unit == 6 * 1000

Tenth == Unit \div 10

_normalise_tags(raw) ==
    IF raw.kind = "none" THEN <<>>
    ELSE LET tokens == [i \in 1..Len(raw.toks) |-> Strip(raw.toks[i])]
         IN SelectSeq(tokens, LAMBDA token : token /= "")

\* the share of the item's own tags that are preferred
style_alignment_of_item(item_tags, preferences) ==
    LET item_set == SeqToSet(_normalise_tags(item_tags))
        pref_set == SeqToSet(_normalise_tags(preferences))
    IN IF pref_set = {} THEN (IF item_set /= {} THEN 6 * Tenth ELSE 4 * Tenth)
       ELSE IF item_set = {} THEN 0
       ELSE (Cardinality(item_set \cap pref_set) * Unit) \div Cardinality(item_set)

_style_alignment(item_tags, preferences) ==
    LET item_set == SeqToSet(_normalise_tags(item_tags))
        pref_set == SeqToSet(_normalise_tags(preferences))
    IN IF pref_set = {} THEN (IF item_set /= {} THEN 6 * Tenth ELSE 4 * Tenth)
       ELSE (Cardinality(item_set \cap pref_set) * Unit) \div Cardinality(pref_set)

AllSeasons == {"spring", "summer", "fall", "winter"}   \* 봄, 여름, 가을, 겨울

\* an alignment for which all-season is a season like any other
season_alignment_literal(item_seasons, target_seasons) ==
    LET seasons == SeqToSet(_normalise_tags(item_seasons))
        target == SeqToSet(_normalise_tags(target_seasons))
    IN IF target = {} THEN 5 * Tenth
       ELSE IF seasons \cap target /= {} THEN Unit
       ELSE 2 * Tenth

_season_alignment(item_seasons, target_seasons) ==
    LET tagged == SeqToSet(_normalise_tags(item_seasons))
        seasons == IF ALL_SEASON \in tagged THEN tagged \cup AllSeasons ELSE tagged
        target == SeqToSet(_normalise_tags(target_seasons))
    IN IF target = {} THEN 5 * Tenth
       ELSE IF seasons \cap target /= {} THEN Unit
       ELSE 2 * Tenth

(* A colour is the sequence of its words; color.replace(" ", "") joins them, *)
(* so the text starts with a palette colour when its first word does.       *)
COLOR_FAMILIES ==
    <<[family |-> "mono", palette |-> {"black", "white", "ivory", "gray", "charcoal"}],
      [family |-> "neutral", palette |-> {"beige", "brown", "camel", "cream"}],
      [family |-> "deep", palette |-> {"navy", "deepgreen", "burgundy"}],
      [family |-> "bright", palette |-> {"red", "yellow", "orange", "blue", "pink"}],
      [family |-> "pastel", palette |-> {"mint", "lavender", "lilac", "sora"}]>>

\* first_word.startswith(palette_color), for the colour words the model writes
StartsWith(word, palette_color) ==
    \/ word = palette_color
    \/ word = "blackwatch" /\ palette_color = "black"

_color_family(color) ==
    IF color = <<>> THEN ETC
    ELSE LET hits == {i \in 1..Len(COLOR_FAMILIES) :
                        \E c \in COLOR_FAMILIES[i].palette : StartsWith(color[1], c)}
         IN IF hits = {} THEN ETC
            ELSE COLOR_FAMILIES[CHOOSE i \in hits : \A j \in hits : i <= j].family

RECURSIVE SumSeq(_)
SumSeq(s) == IF s = <<>> THEN 0 ELSE Head(s) + SumSeq(Tail(s))

MaxOf(S) == CHOOSE x \in S : \A y \in S : y <= x

\* dominant_count and len(families): the cohesion is their quotient
_color_alignment(items) ==
    LET families == [i \in 1..Len(items) |-> _color_family(items[i].color)]
        counts == {Cardinality({i \in 1..Len(families) : families[i] = f}) : f \in SeqToSet(families)}
        dominant_count == IF counts /= {} THEN MaxOf(counts) ELSE 0
    IN [num |-> dominant_count, den |-> IF Len(families) > 1 THEN Len(families) ELSE 1]

(* round(x, 3) of the fraction num/den, in thousandths.  Away from a tie    *)
(* the nearest thousandth; on an exact tie the float that Python rounds     *)
(* lies just above or just below it, so either neighbour can come out:      *)
(* tie_up says which.                                                       *)
Round3(num, den, tie_up) ==
    LET scaled == num * 1000
        floor == scaled \div den
        rest == scaled % den
    IN IF 2 * rest > den THEN floor + 1
       ELSE IF 2 * rest < den THEN floor
       ELSE IF tie_up THEN floor + 1 ELSE floor

IsTie(num, den) == 2 * ((num * 1000) % den) = den

\* 0.5 * mean(style) + 0.3 * cohesion + 0.2 * mean(season), as a fraction
OutfitScoreFraction(items, prof) ==
    LET n == Len(items)
        style_scores == [i \in 1..n |-> _style_alignment(items[i].style_tags, prof.style_preferences)]
        season_scores == [i \in 1..n |-> _season_alignment(items[i].season, prof.season)]
        cohesion == _color_alignment(items)
    IN IF n = 0 THEN [num |-> 0, den |-> 1]
       ELSE [num |-> 5 * SumSeq(style_scores) + 3 * cohesion.num * Unit + 2 * SumSeq(season_scores),
             den |-> 10 * n * Unit]

\* a score that weighs style, cohesion and season alike
score_outfit_unweighted(items, prof, tie_up) ==
    LET n == Len(items)
        style_scores == [i \in 1..n |-> _style_alignment(items[i].style_tags, prof.style_preferences)]
        season_scores == [i \in 1..n |-> _season_alignment(items[i].season, prof.season)]
        cohesion == _color_alignment(items)
    IN IF n = 0 THEN 0
       ELSE Round3(SumSeq(style_scores) + cohesion.num * Unit + SumSeq(season_scores),
                   3 * n * Unit, tie_up)

_score_outfit(items, prof, tie_up) ==
    LET f == OutfitScoreFraction(items, prof) IN Round3(f.num, f.den, tie_up)

_inventory_by_category(df, category) ==
    SelectSeq(df, LAMBDA row : row.category = category)

\* max(candidates, key=...), sorted(..., reverse=True)[0]: the first of the
\* items whose key is largest
FirstMaxIndex(keys) ==
    CHOOSE i \in 1..Len(keys) :
        /\ \A j \in 1..Len(keys) : keys[j] <= keys[i]
        /\ \A j \in 1..(i - 1) : keys[j] < keys[i]

RemoveAt(s, i) == SubSeq(s, 1, i - 1) \o SubSeq(s, i + 1, Len(s))

\* a sort that puts the smallest score first
RECURSIVE SortByScoreAsc(_)
SortByScoreAsc(entries) ==
    IF entries = <<>> THEN <<>>
    ELSE LET i == FirstMaxIndex([k \in 1..Len(entries) |-> 0 - entries[k].score])
         IN <<entries[i]>> \o SortByScoreAsc(RemoveAt(entries, i))

\* sorted(entries, key=score, reverse=True): stable, largest score first
RECURSIVE SortByScoreDesc(_)
SortByScoreDesc(entries) ==
    IF entries = <<>> THEN <<>>
    ELSE LET i == FirstMaxIndex([k \in 1..Len(entries) |-> entries[k].score])
         IN <<entries[i]>> \o SortByScoreDesc(RemoveAt(entries, i))

----------------------------------------------------------------------------
(* services/recommendations.py: outfits from the inventory *)

\* f"{score:.2f}" of a rounded score, in hundredths.  A score ending in 5
\* thousandths is a float just above or just below the half: those listed
\* here lie above it and print rounded up.
PrintsUp ==
    {5, 25, 35, 55, 65, 85, 95, 115, 135, 165, 195, 225, 255, 265, 275, 315, 325,
     335, 375, 385, 395, 405, 445, 455, 465, 505, 515, 525, 535, 545, 555, 635,
     645, 655, 665, 675, 685, 755, 765, 775, 785, 795, 805, 875, 885, 895, 905,
     915, 925, 935}

Format2f(score) ==
    IF score % 10 > 5 \/ (score % 10 = 5 /\ score \in PrintsUp)
    THEN score \div 10 + 1
    ELSE score \div 10

StyleKeys(items, prof) ==
    [i \in 1..Len(items) |-> _style_alignment(items[i].style_tags, prof.style_preferences)]

SeasonKeys(items, prof) ==
    [i \in 1..Len(items) |-> _season_alignment(items[i].season, prof.season)]

\* the item lists of the combinations, in the order the two loops build them
OutfitCombos(df, prof) ==
    LET tops == _inventory_by_category(df, TOP)
        onepieces == _inventory_by_category(df, ONEPIECE)
        skirts == _inventory_by_category(df, SKIRT)
        bottoms == _inventory_by_category(df, PANTS) \o skirts
        shoes == _inventory_by_category(df, SHOES)
        outers == _inventory_by_category(df, OUTER)
        caps == _inventory_by_category(df, CAP)
        nb == Len(bottoms)
        ns == Len(shoes)
        outer_by_style ==
            IF outers /= <<>> THEN <<outers[FirstMaxIndex(StyleKeys(outers, prof))]>> ELSE <<>>
        outer_by_season ==
            IF outers /= <<>> THEN <<outers[FirstMaxIndex(SeasonKeys(outers, prof))]>> ELSE <<>>
        cap == IF caps /= <<>> THEN <<caps[FirstMaxIndex(SeasonKeys(caps, prof))]>> ELSE <<>>
        \* itertools.product(tops, bottoms, shoes): the last factor runs fastest
        separates ==
            IF tops /= <<>> /\ bottoms /= <<>>
            THEN [k \in 1..(Len(tops) * nb * ns) |->
                    <<tops[((k - 1) \div (nb * ns)) + 1],
                      bottoms[(((k - 1) \div ns) % nb) + 1],
                      shoes[((k - 1) % ns) + 1]>> \o outer_by_style \o cap]
            ELSE <<>>
        dresses ==
            IF onepieces /= <<>>
            THEN [k \in 1..(Len(onepieces) * ns) |->
                    <<onepieces[((k - 1) \div ns) + 1], shoes[((k - 1) % ns) + 1]>>
                    \o outer_by_season]
            ELSE <<>>
    IN separates \o dresses

\* the combinations whose exact score is half-way between two thousandths
TiedCombos(df, prof) ==
    LET combos == OutfitCombos(df, prof)
    IN {k \in 1..Len(combos) :
            IsTie(OutfitScoreFraction(combos[k], prof).num, OutfitScoreFraction(combos[k], prof).den)}

\* sorted(set(chain(...))): a sorted list without repetition, held as a set
CombinedTags(items) ==
    UNION {SeqToSet(_normalise_tags(items[i].style_tags)) : i \in 1..Len(items)}

\* lines 133-188: score each combination, keep the max_results best, format them;
\* ups: the tied combinations whose float rounds upwards
FormatTopCombos(items, prof, max_results, ups) ==
    LET combos == [k \in 1..Len(items) |->
                      [items |-> items[k],
                       score |-> _score_outfit(items[k], prof, k \in ups),
                       style_tags |-> CombinedTags(items[k])]]
        top_combos == Take(SortByScoreDesc(combos), max_results)
    IN [idx \in 1..Len(top_combos) |->
          [title |-> [idx |-> idx, score_2f |-> Format2f(top_combos[idx].score)],
           description |-> SelectSeq([i \in 1..Len(top_combos[idx].items) |->
                                         top_combos[idx].items[i].name],
                                     LAMBDA name : Truthy(name)),
           items |-> top_combos[idx].items,
           score |-> top_combos[idx].score,
           style_tags |-> top_combos[idx].style_tags]]

\* a composer for which footwear is as optional as an outer layer: without
\* shoes it pairs tops with bottoms and lets a dress stand alone
outfit_suggestions_barefoot(df, prof, max_results, ups) ==
    IF df = <<>> THEN <<>>
    ELSE IF _inventory_by_category(df, SHOES) /= <<>>
    THEN FormatTopCombos(OutfitCombos(df, prof), prof, max_results, ups)
    ELSE LET tops == _inventory_by_category(df, TOP)
             bottoms == _inventory_by_category(df, PANTS) \o _inventory_by_category(df, SKIRT)
             onepieces == _inventory_by_category(df, ONEPIECE)
             pairs == [k \in 1..(Len(tops) * Len(bottoms)) |->
                          <<tops[((k - 1) \div Len(bottoms)) + 1],
                            bottoms[((k - 1) % Len(bottoms)) + 1]>>]
             alone == [k \in 1..Len(onepieces) |-> <<onepieces[k]>>]
         IN FormatTopCombos(pairs \o alone, prof, max_results, {})

outfit_suggestions(df, prof, max_results, ups) ==
    IF df = <<>> THEN <<>>
    ELSE IF SelectSeq(df, LAMBDA row : row.category = SHOES) = <<>> THEN <<>>
    ELSE FormatTopCombos(OutfitCombos(df, prof), prof, max_results, ups)

----------------------------------------------------------------------------
(* services/recommendations.py: scoring a catalog candidate *)

_category_gap_score(df, category) ==
    LET count == Len(SelectSeq(df, LAMBDA row : row.category = category))
    IN IF count = 0 THEN Unit
       ELSE IF count = 1 THEN 7 * Tenth
       ELSE IF count = 2 THEN 4 * Tenth
       ELSE Tenth

\* a threshold test that leaves the 1.3x boundary itself out
budget_score_strict(price_krw, budget_manwon) ==
    IF budget_manwon = NoInt \/ budget_manwon = 0 THEN 5 * Tenth
    ELSE LET budget_krw == budget_manwon * 10000
         IN IF price_krw <= budget_krw THEN Unit
            ELSE IF 10 * price_krw < 13 * budget_krw THEN 6 * Tenth
            ELSE 2 * Tenth

\* budget_krw * 1.3 is a float product; it is the exact 13 * budget_krw / 10
\* for every whole budget up to 200000 (each product is a whole number that
\* the float holds exactly), so the comparison is made on whole numbers
_budget_score(price_krw, budget_manwon) ==
    IF budget_manwon = NoInt \/ budget_manwon = 0 THEN 5 * Tenth
    ELSE LET budget_krw == budget_manwon * 10000
         IN IF price_krw <= budget_krw THEN Unit
            ELSE IF 10 * price_krw <= 13 * budget_krw THEN 6 * Tenth
            ELSE 2 * Tenth

\* the rank of the pair (style, season), compared as Python compares tuples
PairKey(style, season) == style * (Unit + 1) + season

\* a matcher that keeps every owned item of each required category
all_inventory_matches(df, category_requirements, prof) ==
    LET RECURSIVE walk(_)
        walk(reqs) ==
            IF reqs = <<>> THEN <<>>
            ELSE _inventory_by_category(df, Head(reqs)) \o walk(Tail(reqs))
    IN walk(category_requirements)

\* a matcher that ranks by season alignment before style alignment
best_inventory_matches_season_first(df, category_requirements, prof) ==
    LET pick(category) ==
            LET candidates == _inventory_by_category(df, category)
                keys == [i \in 1..Len(candidates) |->
                            PairKey(_season_alignment(candidates[i].season, prof.season),
                                    _style_alignment(candidates[i].style_tags,
                                                     prof.style_preferences))]
            IN IF candidates = <<>> THEN <<>> ELSE <<candidates[FirstMaxIndex(keys)]>>
        RECURSIVE walk(_)
        walk(reqs) == IF reqs = <<>> THEN <<>> ELSE pick(Head(reqs)) \o walk(Tail(reqs))
    IN walk(category_requirements)

_best_inventory_matches(df, category_requirements, prof) ==
    LET pick(category) ==
            LET candidates == _inventory_by_category(df, category)
                keys == [i \in 1..Len(candidates) |->
                            PairKey(_style_alignment(candidates[i].style_tags, prof.style_preferences),
                                    _season_alignment(candidates[i].season, prof.season))]
            IN IF candidates = <<>> THEN <<>> ELSE <<candidates[FirstMaxIndex(keys)]>>
        RECURSIVE walk(_)
        walk(reqs) == IF reqs = <<>> THEN <<>> ELSE pick(Head(reqs)) \o walk(Tail(reqs))
    IN walk(category_requirements)

\* one required list for every candidate
RequiredCategoriesUniform(category) == <<TOP, PANTS, SHOES>>

RequiredCategories(category) ==
    IF category = TOP THEN <<PANTS, SHOES>>
    ELSE IF category = PANTS THEN <<TOP, SHOES>>
    ELSE IF category = SHOES THEN <<TOP, PANTS>>
    ELSE IF category = OUTER THEN <<TOP, PANTS, SHOES>>
    ELSE IF category = CAP THEN <<TOP, PANTS, SHOES>>
    ELSE <<TOP, PANTS, SHOES>>

\* a completion that leaves the candidate out of its outfit
build_catalog_outfit_supporting_only(catalog_item, df, prof) ==
    IF catalog_item.category = Absent THEN Raise("KeyError", <<"category">>)
    ELSE Return(_best_inventory_matches(df, RequiredCategories(catalog_item.category), prof))

\* catalog_item["category"] raises KeyError when the record has no such key
_build_catalog_outfit(catalog_item, df, prof) ==
    IF catalog_item.category = Absent THEN Raise("KeyError", <<"category">>)
    ELSE LET required == RequiredCategories(catalog_item.category)
             supporting == _best_inventory_matches(df, required, prof)
         IN Return(<<catalog_item>> \o supporting)

----------------------------------------------------------------------------
(* services/recommendations.py: wishlist_suggestions *)

Reason(kind, detail) == [reason |-> kind, detail |-> detail]

\* a rationale that names the style before the wardrobe gap
build_reason_style_first(entry) ==
    LET reasons ==
            (IF entry.style_score >= 6 * Tenth THEN <<Reason("style", <<>>)>> ELSE <<>>)
            \o (IF entry.gap_score >= 7 * Tenth THEN <<Reason("gap", <<>>)>> ELSE <<>>)
            \o (IF entry.season_score >= 6 * Tenth
                THEN <<Reason("season", _normalise_tags(entry.item.season))>> ELSE <<>>)
            \o (IF entry.budget_score >= 6 * Tenth THEN <<Reason("budget", <<>>)>> ELSE <<>>)
    IN IF reasons = <<>> THEN <<Reason("fallback", <<>>)>> ELSE reasons

_build_reason(entry) ==
    LET reasons ==
            (IF entry.gap_score >= 7 * Tenth THEN <<Reason("gap", <<>>)>> ELSE <<>>)
            \o (IF entry.style_score >= 6 * Tenth THEN <<Reason("style", <<>>)>> ELSE <<>>)
            \o (IF entry.season_score >= 6 * Tenth
                THEN <<Reason("season", _normalise_tags(entry.item.season))>> ELSE <<>>)
            \o (IF entry.budget_score >= 6 * Tenth THEN <<Reason("budget", <<>>)>> ELSE <<>>)
    IN IF reasons = <<>> THEN <<Reason("fallback", <<>>)>> ELSE reasons

\* item.get("category", <default>)
CategoryOr(item, default) == IF item.category = Absent THEN default ELSE item.category

\* int(item.get("price_krw", 0) or 0)
PriceOrZero(item) == IF item.price_krw = NoInt THEN 0 ELSE item.price_krw

ScoredEntry(item, df, prof) ==
    LET style_score == _style_alignment(item.style_tags, prof.style_preferences)
        gap_score == _category_gap_score(df, CategoryOr(item, ""))
        season_score == _season_alignment(item.season, prof.season)
        budget_score == _budget_score(PriceOrZero(item), prof.budget)
        total == 4 * style_score + 3 * gap_score + 2 * season_score + budget_score
    IN [item |-> item,
        score |-> Round3(total, 10 * Unit, FALSE),
        style_score |-> style_score,
        gap_score |-> gap_score,
        season_score |-> season_score,
        budget_score |-> budget_score]

\* buckets.setdefault(category, []).append(entry): a dict keeps its keys in
\* the order they were first set
RECURSIVE BucketOrder(_, _)
BucketOrder(entries, seen) ==
    IF entries = <<>> THEN <<>>
    ELSE LET category == CategoryOr(Head(entries).item, ETC)
         IN IF category \in seen THEN BucketOrder(Tail(entries), seen)
            ELSE <<category>> \o BucketOrder(Tail(entries), seen \cup {category})

Buckets(entries) ==
    LET order == BucketOrder(entries, {})
    IN [b \in 1..Len(order) |->
          [category |-> order[b],
           items |-> SelectSeq(entries, LAMBDA entry : CategoryOr(entry.item, ETC) = order[b])]]

\* -(-a // b) for b > 0
CeilDiv(a, b) == (a + b - 1) \div b

Max(a, b) == IF a >= b THEN a ELSE b

MinBucketCap == 10

EffectiveCap(per_category_cap, limit_total, bucket_count) ==
    IF per_category_cap = NoInt /\ bucket_count > 0
    THEN Max(MinBucketCap, CeilDiv(limit_total, bucket_count))
    ELSE IF per_category_cap = NoInt THEN limit_total
    ELSE per_category_cap

Enriched(entry, outfit) ==
    [name |-> entry.item.name,
     score |-> entry.score,
     reason |-> _build_reason(entry),
     product_url |-> entry.item.product_url,
     price_krw |-> entry.item.price_krw,
     style_tags |-> entry.item.style_tags,
     season |-> entry.item.season,
     outfit_example |-> outfit,
     source |-> IF entry.item.source = Absent THEN "static" ELSE entry.item.source]

RECURSIVE CountSources(_)
CountSources(catalog) ==
    IF catalog = <<>> THEN [x \in {} |-> 0]
    ELSE LET rest == CountSources(SubSeq(catalog, 1, Len(catalog) - 1))
             item == catalog[Len(catalog)]
             source == IF item.source = Absent THEN "static" ELSE item.source
         IN IF source \in DOMAIN rest THEN [rest EXCEPT ![source] = @ + 1]
            ELSE [x \in DOMAIN rest \cup {source} |-> IF x = source THEN 1 ELSE rest[x]]

\* lines 297-368: what follows the load_catalog call
WishlistBody(catalog, errors, df, prof, limit_total, cap_arg) ==
    LET scored_items == [i \in 1..Len(catalog) |-> ScoredEntry(catalog[i], df, prof)]
        buckets == Buckets(scored_items)
        per_category_cap == EffectiveCap(cap_arg, limit_total, Len(buckets))
        selected == [b \in 1..Len(buckets) |->
                        Take(SortByScoreDesc(buckets[b].items), per_category_cap)]
        outfits == [b \in 1..Len(buckets) |->
                      [i \in 1..Len(selected[b]) |->
                          _build_catalog_outfit(selected[b][i].item, df, prof)]]
        failed == \E b \in 1..Len(buckets) : \E i \in 1..Len(selected[b]) :
                      outfits[b][i].kind = "raise"
        recommendations ==
            [b \in 1..Len(buckets) |->
                [category |-> buckets[b].category,
                 items |-> [i \in 1..Len(selected[b]) |->
                               Enriched(selected[b][i], outfits[b][i].value)]]]
        meta == [errors |-> errors,
                 source_counts |-> CountSources(catalog),
                 total_candidates |-> Len(scored_items),
                 total_selected |-> SumSeq([b \in 1..Len(buckets) |-> Len(selected[b])]),
                 per_category_cap |-> per_category_cap]
    IN IF failed THEN Raise("KeyError", <<"category">>)
       ELSE Return([recommendations |-> recommendations, meta |-> meta])

\* the keyword arguments wishlist_suggestions passes to load_catalog
WishlistCallKeywords ==
    {"include_static", "include_musinsa", "include_kream", "musinsa_limit",
     "kream_limit", "musinsa_cookie", "kream_cookie", "include_meta", "refresh_static"}

\* Python binds a call's keywords to the callee's parameters before the body
\* runs; a keyword the signature does not have (and no **kwargs) is a TypeError
UnexpectedKeywords(keywords, params) == keywords \ params

wishlist_suggestions(args, df, prof, file, musinsa, kream) ==
    LET limit_total == Max(args.limit_total, 1)
        musinsa_fetch_limit == IF args.musinsa_limit /= NoInt THEN args.musinsa_limit ELSE limit_total
        kream_fetch_limit == IF args.kream_limit /= NoInt THEN args.kream_limit ELSE limit_total
        unexpected == UnexpectedKeywords(WishlistCallKeywords, LoadCatalogParams)
        loaded == load_catalog([include_static |-> args.include_static,
                                include_musinsa |-> args.include_musinsa,
                                include_kream |-> args.include_kream,
                                musinsa_limit |-> musinsa_fetch_limit,
                                kream_limit |-> kream_fetch_limit,
                                include_meta |-> TRUE],
                               file, musinsa, kream)
    IN IF unexpected /= {}
       THEN Raise("TypeError", <<"load_catalog()", "got", "an", "unexpected", "keyword",
                                 "argument", CHOOSE k \in unexpected : TRUE>>)
       ELSE IF loaded.kind = "raise" THEN loaded
       ELSE WishlistBody(loaded.value.items, loaded.value.errors, df, prof,
                         limit_total, args.per_category_cap)

----------------------------------------------------------------------------
(* app.py: the render cycle of main() *)

\* the checkboxes of the sidebar (lines 200-216)
OptionFlags == {"include_static", "include_musinsa", "include_kream", "refresh_static"}

\* lines 190-234: each checkbox shows the session's option and returns it,
\* or its opposite when the user clicked it; the values are written back
sidebar(options, toggled) ==
    [options EXCEPT
        !.include_static = IF "include_static" \in toggled THEN ~@ ELSE @,
        !.include_musinsa = IF "include_musinsa" \in toggled THEN ~@ ELSE @,
        !.include_kream = IF "include_kream" \in toggled THEN ~@ ELSE @,
        !.refresh_static = IF "refresh_static" \in toggled THEN ~@ ELSE @]

\* any(word in msg for msg in errors)
AnyNames(errors, words) ==
    \E i \in 1..Len(errors) : \E j \in 1..Len(errors[i]) : errors[i][j] \in words

\* lines 332-345: a source named in an error and still enabled is switched off
disable_failed_sources(options, errors) ==
    IF errors = <<>> THEN options
    ELSE LET musinsa_failure == AnyNames(errors, {"<Musinsa>"})
             kream_failure == AnyNames(errors, {"KREAM", "<Keurim>"})
         IN [options EXCEPT
                !.include_musinsa = IF musinsa_failure /\ @ THEN FALSE ELSE @,
                !.include_kream = IF kream_failure /\ @ THEN FALSE ELSE @]

\* the keyword arguments of the call on lines 317-330
request_args(options) ==
    [limit_total |-> options.limit_total, per_category_cap |-> options.per_category_cap,
     include_static |-> options.include_static, include_musinsa |-> options.include_musinsa,
     include_kream |-> options.include_kream, musinsa_limit |-> options.limit_total,
     kream_limit |-> options.limit_total, refresh_static |-> options.refresh_static]

----------------------------------------------------------------------------
(* Operations *)

DefaultLimit == 150

DefaultMaxResults == 6

LoadCatalogArgs ==
    [include_static : BOOLEAN, include_musinsa : BOOLEAN, include_kream : BOOLEAN,
     musinsa_limit : {0, 1, DefaultLimit}, kream_limit : {0, DefaultLimit},
     include_meta : BOOLEAN]

LoadCatalog ==
    /\ call = NoCall
    /\ \E args \in LoadCatalogArgs :
        /\ call' = [op |-> "load_catalog", args |-> args]
        /\ ret' = load_catalog(args, static_catalog, musinsa_site, kream_site)
    /\ UNCHANGED world

\* _deduplicate applied to a candidate list, and then to its own result
Deduplicate ==
    /\ call = NoCall
    /\ \E items \in CandidateLists :
        /\ call' = [op |-> "_deduplicate", items |-> items, again |-> FALSE]
        /\ ret' = Return(_deduplicate(items))
    /\ UNCHANGED world

DeduplicateAgain ==
    /\ call.op = "_deduplicate"
    /\ ~call.again
    /\ call' = [op |-> "_deduplicate", items |-> ret.value, again |-> TRUE]
    /\ ret' = Return(_deduplicate(ret.value))
    /\ UNCHANGED world

MaxResultsChoices == {1, 2, DefaultMaxResults}

\* a composer that reorders the frame it is given in place and writes it back
OutfitSuggestionsInPlace ==
    /\ call = NoCall
    /\ \E max_results \in MaxResultsChoices :
        /\ call' = [op |-> "outfit_suggestions", max_results |-> max_results, ups |-> {}]
        /\ ret' = Return(outfit_suggestions(inventory_df, profile, max_results, {}))
    /\ inventory_df' = Reversed(inventory_df)
    /\ inventory_file' = Reversed(inventory_file)
    /\ UNCHANGED <<static_catalog, musinsa_site, kream_site, profile, catalog_options, fetch>>

OutfitSuggestions ==
    /\ call = NoCall
    /\ \E max_results \in MaxResultsChoices :
       \E ups \in SUBSET TiedCombos(inventory_df, profile) :
        /\ call' = [op |-> "outfit_suggestions", max_results |-> max_results, ups |-> ups]
        /\ ret' = Return(outfit_suggestions(inventory_df, profile, max_results, ups))
    /\ UNCHANGED world

\* the candidates a completion is built around: one of each category the
\* code tells apart, one of another category, one with no category
Candidates ==
    {M1, M2, M3, M4, K2,
     CItem("silver ring", ACCESSORY, 30000, "https://shop/p/9", None, "static"),
     CItem("scarf", None, NoInt, None, None, "static"),
     CItem("gift card", Absent, NoInt, None, None, "static")}

BuildCatalogOutfit ==
    /\ call = NoCall
    /\ \E catalog_item \in Candidates :
        /\ call' = [op |-> "_build_catalog_outfit", catalog_item |-> catalog_item]
        /\ ret' = _build_catalog_outfit(catalog_item, inventory_df, profile)
    /\ UNCHANGED world

\* the budgets of the profile slider's ends and default (app.py:28, 183)
SliderBudgets == {5, 20, 60}

\* for a small budget every price from just under the budget to just over
\* 1.3 times the budget; for a slider budget the prices at the two thresholds
PricesAround(budget_manwon) ==
    IF budget_manwon = NoInt \/ budget_manwon = 0 THEN {0, 10000}
    ELSE IF budget_manwon <= MaxBudget
    THEN (budget_manwon * 10000 - 2)..(budget_manwon * 13000 + 2)
    ELSE {budget_manwon * 10000 + d : d \in {0 - 1, 0, 1}}
         \cup {budget_manwon * 13000 + d : d \in {0 - 1, 0, 1}}

BudgetScore ==
    /\ call = NoCall
    /\ \E budget_manwon \in {NoInt} \cup (0..MaxBudget) \cup SliderBudgets :
       \E price_krw \in PricesAround(budget_manwon) :
        /\ call' = [op |-> "_budget_score", price_krw |-> price_krw,
                    budget_manwon |-> budget_manwon]
        /\ ret' = Return(_budget_score(price_krw, budget_manwon))
    /\ UNCHANGED world

\* the values a tag argument takes: None, a list of tokens, or a text whose
\* pieces between the commas are the tokens (str.split gives at least one)
TagValues(tokens) ==
    {TagNone}
    \cup {TagList(t) : t \in SeqsUpTo(tokens, MaxTags)}
    \cup {TagStr(t) : t \in SeqsUpTo(tokens, MaxTags) \ {<<>>}}

StyleTokens == {"minimal", "street", "classic", " street", " ", ""}

StyleAlignment ==
    /\ call = NoCall
    /\ \E item_tags \in TagValues(StyleTokens) :
       \E preferences \in TagValues(StyleTokens) :
        /\ call' = [op |-> "_style_alignment", item_tags |-> item_tags,
                    preferences |-> preferences]
        /\ ret' = Return(_style_alignment(item_tags, preferences))
    /\ UNCHANGED world

\* an item may carry any season text; "monsoon" stands for one that is no option
ItemSeasonTokens == {ALL_SEASON, "summer", "winter", "monsoon", " "}

\* the profile's seasons are chosen among SEASON_OPTIONS
TargetSeasonTokens == AllSeasons \cup {ALL_SEASON}

SeasonAlignment ==
    /\ call = NoCall
    /\ \E item_seasons \in TagValues(ItemSeasonTokens) :
       \E target_seasons \in TagValues(TargetSeasonTokens) :
        /\ call' = [op |-> "_season_alignment", item_seasons |-> item_seasons,
                    target_seasons |-> target_seasons]
        /\ ret' = Return(_season_alignment(item_seasons, target_seasons))
    /\ UNCHANGED world

\* uuid4().hex[:8]: two records may draw the same identifier
ItemIds == {"1a2b3c4d", "5e6f7a8b"}

\* the category argument: none, empty, blank, two options, a text that is no option
CategoryArgs == {None, "", " ", TOP, SHOES, "hanbok"}

SeasonArgs == {TagNone, TagList(<<" ">>), TagList(<<"summer">>)}

StyleTagArgs == {TagNone, TagStr(<<"minimal ", "">>)}

AddItem ==
    /\ Len(inventory_file) < MaxStore
    /\ \E item_id \in ItemIds : \E category \in CategoryArgs :
       \E season \in SeasonArgs : \E style_tags \in StyleTagArgs :
        LET record == add_item_record(item_id, "coat", category, "navy", season, style_tags)
        IN /\ inventory_file' = add_item(inventory_file, record)
           /\ call' = [op |-> "add_item", category |-> category, season |-> season]
           /\ ret' = Return(record)
    /\ UNCHANGED <<static_catalog, musinsa_site, kream_site, inventory_df, profile,
                   catalog_options, fetch>>

RemoveItem ==
    /\ \E item_id \in ItemIds :
        /\ inventory_file' = remove_item(inventory_file, item_id)
        /\ call' = [op |-> "remove_item", item_id |-> item_id]
        /\ ret' = Return(None)
    /\ UNCHANGED <<static_catalog, musinsa_site, kream_site, inventory_df, profile,
                   catalog_options, fetch>>

\* the labels of the sections: those of default_categories and default_paths,
\* and the catch-all a caller may pass in category_codes or search_paths
MusinsaLabels == {TOP, PANTS, OUTER, ONEPIECE, SKIRT, SHOES, CAP, ACCESSORY, ETC}

KreamLabels == {SHOES, TOP, PANTS, OUTER, CAP, ETC}

\* words of a hint: keywords, words that hold one, a goods number, other text
HintWords == {"tshirt", "denim", "jacket", "baekpaek", "sajin", SKIRT, "123456", "lifestyle", " "}

Hints == {NoHint} \cup {Hint(w) : w \in SeqsUpTo(HintWords, MaxHint)}

\* one listing node of a Musinsa section turned into an item
MusinsaNode ==
    /\ call = NoCall
    /\ \E label \in MusinsaLabels : \E category_hint \in Hints :
        /\ call' = [op |-> "fetch_musinsa_catalog", label |-> label,
                    category_hint |-> category_hint]
        /\ ret' = Return(musinsa_item("item", category_hint, label))
    /\ UNCHANGED world

\* one product of a KREAM search page turned into an item
KreamProduct ==
    /\ call = NoCall
    /\ \E default_category \in KreamLabels : \E category_hint \in Hints :
        /\ call' = [op |-> "fetch_kream_catalog", label |-> default_category,
                    category_hint |-> category_hint]
        /\ ret' = Return(kream_item("item", category_hint, default_category))
    /\ UNCHANGED world

\* the values the four sub-scores take (lines 50-52, 64-67, 193-199, 204-210)
StyleScores == {0, Unit \div 3, Unit \div 2, 2 * (Unit \div 3), Unit, 6 * Tenth, 4 * Tenth}

GapScores == {Unit, 7 * Tenth, 4 * Tenth, Tenth}

SeasonScores == {5 * Tenth, Unit, 2 * Tenth}

BudgetScores == {5 * Tenth, Unit, 6 * Tenth, 2 * Tenth}

\* _build_reason applied to a scored entry
BuildReason ==
    /\ call = NoCall
    /\ \E item \in {S1, M3} : \E style \in StyleScores : \E gap \in GapScores :
       \E season \in SeasonScores : \E budget \in BudgetScores :
        LET entry == [item |-> item,
                      score |-> Round3(4 * style + 3 * gap + 2 * season + budget, 10 * Unit, FALSE),
                      style_score |-> style, gap_score |-> gap,
                      season_score |-> season, budget_score |-> budget]
        IN /\ call' = [op |-> "_build_reason", entry |-> entry]
           /\ ret' = Return(_build_reason(entry))
    /\ UNCHANGED world

\* the responses a ranking page gives
Pages ==
    {Page("ok", nodes) : nodes \in {<<>>, <<"junk">>, <<"1">>, <<"1", "2">>, <<"junk", "2">>}}
    \cup {Page(status, <<>>) : status \in {"4xx", "5xx", "conn"}}

\* the sites: a host that does not resolve, or MaxCat sections listing at
\* most MaxPages pages together, followed by empty pages, by pages of junk
\* nodes or by pages of one more product each
RECURSIVE SectionLists(_, _)
SectionLists(n, pages) ==
    IF n = 0 THEN {<<>>}
    ELSE UNION {{<<first>> \o others : others \in SectionLists(n - 1, pages - Len(first))} :
                  first \in SeqsUpTo(Pages, pages)}

PagedSites ==
    {[resolvable |-> FALSE, sections |-> [c \in 1..MaxCat |-> <<>>], rest |-> "empty"]}
    \cup {[resolvable |-> TRUE, sections |-> sections, rest |-> rest] :
            sections \in SectionLists(MaxCat, MaxPages),
            rest \in {"empty", "junk", "more"}}

Limits == (0..MaxLimit) \cup {DefaultLimit}

\* the call, up to the first category: _ensure_host_resolvable (line 179)
FetchStart ==
    /\ call = NoCall
    /\ \E limit \in Limits :
        /\ call' = [op |-> "fetch_musinsa_catalog", limit |-> limit]
        /\ IF musinsa_site.resolvable
           THEN /\ fetch' = [pc |-> "while", category |-> 1, page |-> 1,
                             category_results |-> <<>>, results |-> <<>>,
                             requests |-> [c \in 1..Len(categories) |-> 0]]
                /\ ret' = NoRet
           ELSE /\ fetch' = [pc |-> "done"]
                /\ ret' = Raise("RuntimeError", MusinsaFaultMessage("dns"))
    /\ UNCHANGED <<static_catalog, musinsa_site, kream_site, inventory_file, inventory_df,
                   profile, catalog_options>>

\* one page request of the category at hand
RequestPage ==
    /\ fetch.pc = "while"
    /\ Len(fetch.category_results) < call.limit
    /\ LET step == request_page(musinsa_site, fetch, call.limit)
       IN fetch' = step.frame /\ ret' = step.outcome
    /\ UNCHANGED <<static_catalog, musinsa_site, kream_site, inventory_file, inventory_df,
                   profile, catalog_options, call>>

\* the while loop is left: by its condition, by a break or by the safety stop
EndCategory ==
    /\ \/ fetch.pc = "extend"
       \/ fetch.pc = "while" /\ Len(fetch.category_results) >= call.limit
    /\ LET step == end_category(fetch, call.limit)
       IN fetch' = step.frame /\ ret' = step.outcome
    /\ UNCHANGED <<static_catalog, musinsa_site, kream_site, inventory_file, inventory_df,
                   profile, catalog_options, call>>

\* one run of main(): the sidebar, the request of tab 3, the handling of its
\* error list; an exception out of the request ends the run where it is
Render ==
    \E toggled \in SUBSET OptionFlags :
        LET options == sidebar(catalog_options, toggled)
            outcome == wishlist_suggestions(request_args(options), inventory_df, profile,
                                            static_catalog, musinsa_site, kream_site)
        IN /\ call' = [op |-> "main", toggled |-> toggled, options |-> options]
           /\ ret' = outcome
           /\ catalog_options' =
                 IF outcome.kind = "raise" THEN options
                 ELSE disable_failed_sources(options, outcome.value.meta.errors)
           /\ UNCHANGED <<static_catalog, musinsa_site, kream_site, inventory_file,
                          inventory_df, profile, fetch>>

WishlistArgs ==
    [limit_total : {0, 20, 100}, per_category_cap : {NoInt, 0, 1, 12},
     include_static : BOOLEAN, include_musinsa : BOOLEAN, include_kream : BOOLEAN,
     musinsa_limit : {NoInt}, kream_limit : {NoInt}, refresh_static : BOOLEAN]

WishlistSuggestions ==
    /\ call = NoCall
    /\ \E args \in WishlistArgs :
        /\ call' = [op |-> "wishlist_suggestions", args |-> args]
        /\ ret' = wishlist_suggestions(args, inventory_df, profile,
                                       static_catalog, musinsa_site, kream_site)
    /\ UNCHANGED world

----------------------------------------------------------------------------
(* The aggregator alone *)

NoInventory == <<>>

NoProfile == [style_preferences |-> TagList(<<>>), season |-> TagList(<<>>), budget |-> NoInt]

InitCatalog ==
    /\ static_catalog \in StaticFiles
    /\ musinsa_site \in MusinsaSites
    /\ kream_site \in KreamSites
    /\ inventory_df = NoInventory
    /\ inventory_file = inventory_df
    /\ catalog_options = DefaultOptions
    /\ fetch = NoFetch
    /\ profile = NoProfile
    /\ call = NoCall
    /\ ret = NoRet

NextCatalog == LoadCatalog

SpecCatalog == InitCatalog /\ [][NextCatalog]_vars

----------------------------------------------------------------------------
(* _deduplicate alone *)

InitDedup ==
    /\ static_catalog = [state |-> "missing", records |-> <<>>]
    /\ musinsa_site = [fault |-> None, listing |-> <<>>]
    /\ kream_site = [fault |-> None, listing |-> <<>>]
    /\ inventory_df = NoInventory
    /\ inventory_file = inventory_df
    /\ catalog_options = DefaultOptions
    /\ fetch = NoFetch
    /\ profile = NoProfile
    /\ call = NoCall
    /\ ret = NoRet

NextDedup == Deduplicate \/ DeduplicateAgain

SpecDedup == InitDedup /\ [][NextDedup]_vars

----------------------------------------------------------------------------
(* The outfit composer alone *)

InitOutfit ==
    /\ static_catalog = [state |-> "missing", records |-> <<>>]
    /\ musinsa_site = [fault |-> None, listing |-> <<>>]
    /\ kream_site = [fault |-> None, listing |-> <<>>]
    /\ inventory_df \in Inventories
    /\ inventory_file = inventory_df
    /\ catalog_options = DefaultOptions
    /\ fetch = NoFetch
    /\ profile \in Profiles
    /\ call = NoCall
    /\ ret = NoRet

NextOutfit == OutfitSuggestions \/ BuildCatalogOutfit

SpecOutfit == InitOutfit /\ [][NextOutfit]_vars

----------------------------------------------------------------------------
(* _budget_score alone *)

NextBudget == BudgetScore

SpecBudget == InitDedup /\ [][NextBudget]_vars

----------------------------------------------------------------------------
(* The alignment scores alone *)

NextAlign == StyleAlignment \/ SeasonAlignment

SpecAlign == InitDedup /\ [][NextAlign]_vars

----------------------------------------------------------------------------
(* The inventory file under add_item and remove_item *)

NextInventory == AddItem \/ RemoveItem

SpecInventory == InitDedup /\ [][NextInventory]_vars

----------------------------------------------------------------------------
(* The adapters' items *)

NextAdapters == MusinsaNode \/ KreamProduct

SpecAdapters == InitDedup /\ [][NextAdapters]_vars

----------------------------------------------------------------------------
(* _build_reason alone *)

NextReason == BuildReason

SpecReason == InitDedup /\ [][NextReason]_vars

----------------------------------------------------------------------------
(* The paginated fetch, one page request at a time *)

InitPaging ==
    /\ static_catalog = [state |-> "missing", records |-> <<>>]
    /\ musinsa_site \in PagedSites
    /\ kream_site = [fault |-> None, listing |-> <<>>]
    /\ inventory_df = NoInventory
    /\ inventory_file = inventory_df
    /\ catalog_options = DefaultOptions
    /\ fetch = NoFetch
    /\ profile = NoProfile
    /\ call = NoCall
    /\ ret = NoRet

NextPaging == FetchStart \/ RequestPage \/ EndCategory

SpecPaging == InitPaging /\ [][NextPaging]_vars

\* a fetch that has started takes its next step
SpecPagingFair == SpecPaging /\ WF_vars(NextPaging)

----------------------------------------------------------------------------
(* The recommendation request *)

Wardrobe == RowsOf({1, 3, 6})

Shopper == [style_preferences |-> TagList(<<"minimal">>),
            season |-> TagList(<<"summer">>), budget |-> 6]

Init ==
    /\ static_catalog \in {f \in StaticFiles : f.state = "ok" => f.records = <<S1, S2>>}
    /\ musinsa_site \in {m \in MusinsaSites : m.fault \in {None, "dns"} /\ m.listing \in {<<>>, FiveItems}}
    /\ kream_site \in {k \in KreamSites : k.fault = None => k.listing = <<K1, K2>>}
    /\ inventory_df \in {NoInventory, Wardrobe}
    /\ inventory_file = inventory_df
    /\ catalog_options = DefaultOptions
    /\ fetch = NoFetch
    /\ profile \in {NoProfile, Shopper}
    /\ call = NoCall
    /\ ret = NoRet

Next == WishlistSuggestions

Spec == Init /\ [][Next]_vars

----------------------------------------------------------------------------
(* The application's session: one render after another *)

NextRender == Render

SpecRender == Init /\ [][NextRender]_vars

----------------------------------------------------------------------------
(* The recommendation computations of one session *)

NextRecommend == OutfitSuggestions \/ BuildCatalogOutfit \/ WishlistSuggestions

SpecRecommend == Init /\ [][NextRecommend]_vars

----------------------------------------------------------------------------
(* Properties of the aggregator *)

Sources == <<"static", "musinsa", "kream">>

\* whether load_catalog calls the source at all, and what the source then does
Attempted(src, args) ==
    IF src = "static" THEN args.include_static
    ELSE IF src = "musinsa" THEN args.include_musinsa /\ args.musinsa_limit > 0
    ELSE args.include_kream /\ args.kream_limit > 0

SourceOutcome(src, args) ==
    IF src = "static" THEN _load_static_catalog(static_catalog)
    ELSE IF src = "musinsa" THEN fetch_musinsa_catalog(musinsa_site, args.musinsa_limit)
    ELSE fetch_kream_catalog(kream_site, args.kream_limit)

SourceRaised(src, args) == Attempted(src, args) /\ SourceOutcome(src, args).kind = "raise"

SourceReturned(src, args) == Attempted(src, args) /\ SourceOutcome(src, args).kind = "return"

Contribution(src, args) ==
    IF SourceReturned(src, args) THEN SourceOutcome(src, args).value ELSE <<>>

\* what the sources that did not raise returned, static first
Merged(args) ==
    Contribution("static", args) \o Contribution("musinsa", args) \o Contribution("kream", args)

\* the identity of section 3: product_url, else source_id, else name
Identity(item) ==
    IF item.product_url /= None /\ item.product_url /= "" THEN item.product_url
    ELSE IF item.source_id /= None /\ item.source_id /= "" THEN item.source_id
    ELSE item.name

\* the items of L that no earlier item of L shares its identity with, in L's order
RECURSIVE FirstOccurrencesFrom(_, _)
FirstOccurrencesFrom(L, i) ==
    IF i > Len(L) THEN <<>>
    ELSE IF \E j \in 1..(i - 1) : Identity(L[j]) = Identity(L[i])
    THEN FirstOccurrencesFrom(L, i + 1)
    ELSE <<L[i]>> \o FirstOccurrencesFrom(L, i + 1)

FirstOccurrences(L) == FirstOccurrencesFrom(L, 1)

LoadCatalogDone == call.op = "load_catalog"

\* C2: whichever enabled sources raise, load_catalog returns normally, and
\* every item a non-raising source returned is in the result unless an
\* earlier item of the merged list has its identity: a failing source stops
\* no later source.
C2_FailureIsolation ==
    LoadCatalogDone =>
        /\ ret.kind = "return"
        /\ LET merged == Merged(call.args)
           IN \A i \in 1..Len(merged) :
                \/ merged[i] \in SeqToSet(ret.value.items)
                \/ \E j \in 1..(i - 1) : Identity(merged[j]) = Identity(merged[i])

\* the static file is corrupt, Musinsa fails, and KREAM's items are merged
C2_Witness ==
    /\ LoadCatalogDone
    /\ SourceRaised("static", call.args)
    /\ SourceRaised("musinsa", call.args)
    /\ SourceReturned("kream", call.args)
    /\ ret.kind = "return"
    /\ Len(ret.value.items) = 2
    /\ SeqToSet(ret.value.items) = {K1, K2}

SourceWord(src) ==
    IF src = "static" THEN "<static catalog>"
    ELSE IF src = "musinsa" THEN "<Musinsa>"
    ELSE "<Keurim>"

NamesSource(err, src) == SourceWord(src) \in SeqToSet(err)

ConnectionFailureScenario(args) ==
    /\ ~args.include_static /\ args.include_musinsa /\ args.include_kream
    /\ args.musinsa_limit >= 5 /\ args.kream_limit > 0
    /\ args.include_meta
    /\ musinsa_site = [fault |-> None, listing |-> FiveItems]
    /\ kream_site.fault = "conn"

\* C3: with include_meta, the error list holds exactly one text for each
\* enabled source that raised and none for any other source, each text
\* naming its source; two sources of which one fails to connect and one
\* returns 5 distinct items give those 5 items and one error naming the
\* failing source.
C3_OneErrorPerFailedSource ==
    (LoadCatalogDone /\ call.args.include_meta) =>
        /\ ret.kind = "return"
        /\ LET errors == ret.value.errors
               raised == {i \in 1..3 : SourceRaised(Sources[i], call.args)}
           IN /\ Len(errors) = Cardinality(raised)
              /\ \A i \in 1..3 :
                    Cardinality({k \in 1..Len(errors) : NamesSource(errors[k], Sources[i])})
                        = IF i \in raised THEN 1 ELSE 0
        /\ ConnectionFailureScenario(call.args) =>
              /\ ret.value.items = FiveItems
              /\ Len(ret.value.errors) = 1
              /\ NamesSource(ret.value.errors[1], "kream")

C3_Witness ==
    /\ LoadCatalogDone
    /\ ConnectionFailureScenario(call.args)
    /\ Len(ret.value.items) = 5
    /\ Len(ret.value.errors) = 1

\* C4: deduplication keeps, in their order, exactly the first occurrence of
\* each identity, and deduplicating its own result changes nothing.
C4_DedupIdempotentOrdered ==
    (call.op = "_deduplicate") =>
        /\ ret.value = FirstOccurrences(call.items)
        /\ call.again => ret.value = call.items

\* a list with a repeated identity was shortened, then deduplicated again
C4_Witness ==
    /\ call.op = "_deduplicate"
    /\ call.again
    /\ Len(call.items) = 2
    /\ ret.value = <<M2, S1>>

\* C5: no two items of the result share an identity (product_url, else
\* source_id, else name); each is the first item of the merged list with its
\* identity; and a static entry survives over every external item with its
\* identity.
C5_IdentityFirstWins ==
    (LoadCatalogDone /\ ret.kind = "return") =>
        LET items == ret.value.items
            merged == Merged(call.args)
            static == Contribution("static", call.args)
        IN /\ \A i, j \in 1..Len(items) :
                i /= j => Identity(items[i]) /= Identity(items[j])
           /\ \A i \in 1..Len(items) :
                \E k \in 1..Len(merged) :
                    /\ merged[k] = items[i]
                    /\ \A j \in 1..(k - 1) : Identity(merged[j]) /= Identity(items[i])
           /\ \A s \in 1..Len(static) :
                \E i \in 1..Len(items) :
                    /\ Identity(items[i]) = Identity(static[s])
                    /\ items[i] \in SeqToSet(static)
                    /\ items[i].source = "static"

\* the static shirt and Musinsa's listing of the same URL: the static one stays;
\* KREAM's cap, whose id is the URL of Musinsa's slacks, goes
C5_Witness ==
    /\ LoadCatalogDone
    /\ ret.kind = "return"
    /\ S1 \in SeqToSet(Merged(call.args))
    /\ M1 \in SeqToSet(Merged(call.args))
    /\ K2 \in SeqToSet(Merged(call.args))
    /\ S1 \in SeqToSet(ret.value.items)
    /\ M2 \in SeqToSet(ret.value.items)
    /\ M1 \notin SeqToSet(ret.value.items)
    /\ K2 \notin SeqToSet(ret.value.items)

----------------------------------------------------------------------------
(* Properties of the recommendation request *)

WishlistDone == call.op = "wishlist_suggestions"

\* the catalog the request's sources and options yield
RequestCatalog(args) ==
    load_catalog([include_static |-> args.include_static,
                  include_musinsa |-> args.include_musinsa,
                  include_kream |-> args.include_kream,
                  musinsa_limit |-> IF args.musinsa_limit /= NoInt THEN args.musinsa_limit
                                    ELSE Max(args.limit_total, 1),
                  kream_limit |-> IF args.kream_limit /= NoInt THEN args.kream_limit
                                  ELSE Max(args.limit_total, 1),
                  include_meta |-> TRUE],
                 static_catalog, musinsa_site, kream_site).value.items

\* the categories of the request's catalog: its non-empty buckets
RequestCategories(args) ==
    {IF item.category = Absent THEN ETC ELSE item.category :
        item \in SeqToSet(RequestCatalog(args))}

\* C1: a recommendation request, whatever its include_* and refresh_static
\* options and whatever the sources do, ends by returning the pair
\* (recommendations, meta), never by raising.
C1_RequestReturns ==
    WishlistDone =>
        /\ ret.kind = "return"
        /\ DOMAIN ret.value = {"recommendations", "meta"}

\* C6: in the returned recommendations no bucket holds more items than the
\* effective cap of meta, and that cap is at least 10 when per_category_cap is
\* unset and a bucket exists.
C6_CategoryCap ==
    WishlistDone =>
        /\ ret.kind = "return"
        /\ \A b \in 1..Len(ret.value.recommendations) :
              Len(ret.value.recommendations[b].items) <= ret.value.meta.per_category_cap
        /\ (call.args.per_category_cap = NoInt /\ RequestCategories(call.args) /= {})
              => ret.value.meta.per_category_cap >= 10

\* C7: with no explicit cap and at least one bucket, meta's cap is
\* max(10, ceil(limit_total / buckets)), limit_total first raised to at least 1;
\* limit_total = 100 with 4 buckets gives 25.
C7_DerivedCap ==
    (WishlistDone /\ call.args.per_category_cap = NoInt /\ RequestCategories(call.args) /= {}) =>
        LET limit == IF call.args.limit_total < 1 THEN 1 ELSE call.args.limit_total
            n == Cardinality(RequestCategories(call.args))
            ceil == CHOOSE q \in 0..limit : q * n >= limit /\ (q - 1) * n < limit
        IN /\ ret.kind = "return"
           /\ ret.value.meta.per_category_cap = (IF ceil > 10 THEN ceil ELSE 10)
           /\ (limit = 100 /\ n = 4) => ret.value.meta.per_category_cap = 25

\* the scored entries of the request's catalog (lines 304-323)
RequestScored(args) ==
    LET catalog == RequestCatalog(args)
    IN [i \in 1..Len(catalog) |-> ScoredEntry(catalog[i], inventory_df, profile)]

\* C11: the budget sub-score of a candidate of the request is 0.5 when the
\* profile has no budget and 0.5 when the candidate's price is null, whatever
\* the other value is.
C11_NeutralBudget ==
    WishlistDone =>
        /\ ret.kind = "return"
        /\ \A i \in 1..Len(RequestScored(call.args)) :
              LET entry == RequestScored(call.args)[i]
              IN (profile.budget = NoInt \/ entry.item.price_krw = NoInt)
                    => entry.budget_score = 5 * Tenth

\* C12: every scored candidate's composite score is 0.4*style + 0.3*gap +
\* 0.2*season + 0.1*budget of its recorded sub-scores, rounded to the nearest
\* thousandth; the sub-scores and the composite lie in [0,1]; the score a
\* returned recommendation carries is that of its candidate.
C12_CompositeScore ==
    WishlistDone =>
        /\ ret.kind = "return"
        /\ \A i \in 1..Len(RequestScored(call.args)) :
              LET entry == RequestScored(call.args)[i]
                  weighted == 4 * entry.style_score + 3 * entry.gap_score
                              + 2 * entry.season_score + entry.budget_score
                  diff == entry.score * 10 * Unit - 1000 * weighted
              IN /\ \A sub \in {entry.style_score, entry.gap_score,
                                entry.season_score, entry.budget_score} : sub \in 0..Unit
                 /\ 2 * diff <= 10 * Unit /\ 2 * diff >= 0 - 10 * Unit
                 /\ entry.score \in 0..1000
        /\ \A b \in 1..Len(ret.value.recommendations) :
           \A k \in 1..Len(ret.value.recommendations[b].items) :
              \E i \in 1..Len(RequestScored(call.args)) :
                 LET entry == RequestScored(call.args)[i]
                     shown == ret.value.recommendations[b].items[k]
                 IN /\ shown.name = entry.item.name
                    /\ shown.product_url = entry.item.product_url
                    /\ shown.score = entry.score

----------------------------------------------------------------------------
(* Properties of the outfit composer *)

Owns(category) == \E i \in 1..Len(inventory_df) : inventory_df[i].category = category

\* C8: outfit_suggestions returns the empty list whenever the inventory holds
\* no footwear, whatever else it holds and whatever the profile.
C8_NoFootwearNoOutfit ==
    (call.op = "outfit_suggestions" /\ ~Owns(SHOES)) => ret.value = <<>>

\* a top, trousers, a dress, an outer layer and a cap, but no shoes
C8_Witness ==
    /\ call.op = "outfit_suggestions"
    /\ ~Owns(SHOES)
    /\ Owns(TOP) /\ Owns(PANTS) /\ Owns(ONEPIECE) /\ Owns(OUTER) /\ Owns(CAP)
    /\ ret.value = <<>>

----------------------------------------------------------------------------
(* Properties of the budget score *)

\* C10: for a positive budget b, the price b*10000 scores 1.0, every price
\* above it up to b*13000 scores 0.6, and the price b*13000 + 1 scores 0.2.
C10_BudgetBoundaries ==
    (call.op = "_budget_score" /\ call.budget_manwon > 0) =>
        LET b == call.budget_manwon
            price == call.price_krw
        IN /\ price = b * 10000 => ret.value = Unit
           /\ (b * 10000 < price /\ price <= b * 13000) => ret.value = 6 * Tenth
           /\ price = b * 13000 + 1 => ret.value = 2 * Tenth

\* the price exactly 1.3 times the default budget of 20
C10_Witness ==
    /\ call.op = "_budget_score"
    /\ call.budget_manwon = 20
    /\ call.price_krw = 260000
    /\ ret.value = 6 * Tenth

----------------------------------------------------------------------------
(* Properties of the alignment scores *)

\* the tags a tag value carries: its tokens, stripped, the blank ones left out
TagSet(raw) == {Strip(raw.toks[i]) : i \in 1..Len(raw.toks)} \ {""}

\* C13: with a non-empty preferred-style set the style alignment is the
\* number of preferred styles among the item's tags divided by the number of
\* preferred styles; with an empty one it is 0.6 for an item that carries a
\* tag and 0.4 for an item that carries none.
C13_StyleAlignment ==
    call.op = "_style_alignment" =>
        LET item_set == TagSet(call.item_tags)
            pref_set == TagSet(call.preferences)
        IN /\ pref_set /= {} =>
                ret.value * Cardinality(pref_set) = Cardinality(item_set \cap pref_set) * Unit
           /\ (pref_set = {} /\ item_set /= {}) => ret.value = 6 * Tenth
           /\ (pref_set = {} /\ item_set = {}) => ret.value = 4 * Tenth

\* one of two preferred styles, on an item with a second tag that is not preferred
C13_Witness ==
    /\ call.op = "_style_alignment"
    /\ call.item_tags = TagStr(<<" street", "classic">>)
    /\ call.preferences = TagList(<<"minimal", "street">>)
    /\ ret.value = 5 * Tenth

\* C14: the season alignment is 0.5 when no season is desired; otherwise 1.0
\* when the item's seasons meet the desired ones or the item is tagged
\* all-season, and 0.2 when neither is the case.
C14_SeasonAlignment ==
    call.op = "_season_alignment" =>
        LET seasons == TagSet(call.item_seasons)
            target == TagSet(call.target_seasons)
        IN /\ target = {} => ret.value = 5 * Tenth
           /\ (target /= {} /\ (seasons \cap target /= {} \/ ALL_SEASON \in seasons))
                => ret.value = Unit
           /\ (target /= {} /\ seasons \cap target = {} /\ ALL_SEASON \notin seasons)
                => ret.value = 2 * Tenth

\* an all-season item against a desired season it does not name
C14_Witness ==
    /\ call.op = "_season_alignment"
    /\ call.item_seasons = TagList(<<ALL_SEASON>>)
    /\ call.target_seasons = TagList(<<"fall", "winter">>)
    /\ ret.value = Unit

----------------------------------------------------------------------------
(* Properties of the outfit score *)

\* the five named colour families and the family of every other colour
FamilyNames == {COLOR_FAMILIES[i].family : i \in 1..Len(COLOR_FAMILIES)} \cup {ETC}

\* the number of items of the colour family most common among them
DominantCount(items) ==
    MaxOf({Cardinality({i \in 1..Len(items) : _color_family(items[i].color) = f}) :
              f \in FamilyNames})

\* C15: the score of every outfit outfit_suggestions returns is 0.5 * the mean
\* style alignment of its items + 0.3 * cohesion + 0.2 * the mean season
\* alignment of its items, rounded to the nearest thousandth, where cohesion
\* is the number of items of the most common colour family over the number
\* of items.
C15_OutfitScore ==
    call.op = "outfit_suggestions" =>
        \A idx \in 1..Len(ret.value) :
            LET items == ret.value[idx].items
                n == Len(items)
                style_sum == SumSeq([i \in 1..n |->
                                _style_alignment(items[i].style_tags, profile.style_preferences)])
                season_sum == SumSeq([i \in 1..n |->
                                _season_alignment(items[i].season, profile.season)])
                num == 5 * style_sum + 3 * DominantCount(items) * Unit + 2 * season_sum
                den == 10 * n * Unit
                diff == ret.value[idx].score * den - 1000 * num
            IN 2 * diff <= den /\ 2 * diff >= 0 - den

\* a five-item outfit of more than one colour family whose items differ in
\* style alignment
C15_Witness ==
    /\ call.op = "outfit_suggestions"
    /\ profile.style_preferences = TagList(<<"minimal">>)
    /\ profile.season = TagList(<<"winter">>)
    /\ \E idx \in 1..Len(ret.value) :
          /\ Len(ret.value[idx].items) = 5
          /\ DominantCount(ret.value[idx].items) = 3
          /\ ret.value[idx].items[1].name = "graphic tee"
          /\ ret.value[idx].score = 548

----------------------------------------------------------------------------
(* Properties of the size of an outfit *)

\* C16, as stated: every outfit of outfit_suggestions and every completion of
\* _build_catalog_outfit consists of 2 to 5 items.
C16_TwoToFiveItems ==
    /\ call.op = "outfit_suggestions" =>
          \A idx \in 1..Len(ret.value) : Len(ret.value[idx].items) \in 2..5
    /\ (call.op = "_build_catalog_outfit" /\ ret.kind = "return") => Len(ret.value) \in 2..5

\* C16, amended: every outfit of outfit_suggestions consists of 2 to 5 items;
\* every completion of _build_catalog_outfit consists of 1 to 4 items, the
\* candidate and at most three owned items.
C16_OutfitSize ==
    /\ call.op = "outfit_suggestions" =>
          \A idx \in 1..Len(ret.value) : Len(ret.value[idx].items) \in 2..5
    /\ (call.op = "_build_catalog_outfit" /\ ret.kind = "return") => Len(ret.value) \in 1..4

\* a completion of four items: an outer layer with an owned top, trousers and
\* footwear, where two tops are owned
C16_Witness ==
    /\ call.op = "_build_catalog_outfit"
    /\ call.catalog_item = M4
    /\ Len(_inventory_by_category(inventory_df, TOP)) = 2
    /\ ret.kind = "return"
    /\ Len(ret.value) = 4

----------------------------------------------------------------------------
(* Properties of the inventory file *)

\* every stored record has a season
SeasonsNeverEmpty ==
    \A i \in 1..Len(inventory_file) : inventory_file[i].season.toks /= <<>>

\* C17: after any sequence of add_item and remove_item calls every stored
\* record has a non-empty season list and a category of the fixed category
\* set, the catch-all included.
C17_InventoryInvariant ==
    \A i \in 1..Len(inventory_file) :
        /\ inventory_file[i].season.toks /= <<>>
        /\ inventory_file[i].category \in CATEGORY_OPTIONS

----------------------------------------------------------------------------
(* Properties of the recommendation computations *)

RecommendationOps == {"outfit_suggestions", "_build_catalog_outfit", "wishlist_suggestions"}

\* C18: a recommendation computation (outfit_suggestions, wishlist_suggestions
\* and the completion they build) leaves the inventory frame it is given and
\* the inventory file as they were, whatever it returns or raises.
C18_InventoryReadOnly ==
    [][call'.op \in RecommendationOps =>
          /\ inventory_df' = inventory_df
          /\ inventory_file' = inventory_file]_vars

\* outfits composed from a wardrobe of three items
C18_Witness ==
    /\ call.op = "outfit_suggestions"
    /\ Len(inventory_df) = 3
    /\ inventory_file = inventory_df
    /\ Len(ret.value) = 1
    /\ Len(ret.value[1].items) = 3

----------------------------------------------------------------------------
(* Properties of the adapters' items *)

\* the keywords of the table that occur in the hint, by their place in the table
MatchingKeywords(category_hint) ==
    {k \in 1..Len(Keywords) :
        \E i \in 1..Len(category_hint.words) :
            WordHolds(category_hint.words[i], Keywords[k].keyword)}

\* C19: an item an adapter emits carries the canonical category of the first
\* keyword of the table that occurs in its category hint, or the section's
\* label when the hint is absent or holds no keyword; the catch-all is not
\* emitted in a section whose label is not the catch-all.
C19_CategoryNormalised ==
    call.op \in {"fetch_musinsa_catalog", "fetch_kream_catalog"} =>
        LET hits == MatchingKeywords(call.category_hint)
            first == CHOOSE k \in hits : \A j \in hits : k <= j
        IN /\ hits = {} => ret.value.category = call.label
           /\ hits /= {} => ret.value.category = Keywords[first].category
           /\ call.label /= ETC => ret.value.category /= ETC
           /\ ret.value.category \in CATEGORY_OPTIONS

\* a hint of two keywords of different categories, the later-listed one first
\* in the text: 재킷 데님 in the tops section is filed under trousers
C19_Witness ==
    /\ call.op = "fetch_musinsa_catalog"
    /\ call.label = TOP
    /\ call.category_hint = Hint(<<"jacket", "denim">>)
    /\ ret.value.category = PANTS

----------------------------------------------------------------------------
(* Properties of the selection within a bucket *)

\* the scored entries of a category, in the order the catalog lists them
BucketEntries(args, category) ==
    SelectSeq(RequestScored(args),
              LAMBDA entry : (IF entry.item.category = Absent THEN ETC
                              ELSE entry.item.category) = category)

\* the number of entries of the bucket that a descending stable sort puts
\* before its p-th entry: those of a higher score, and those of the same
\* score that come earlier
EntriesBefore(entries, p) ==
    Cardinality({q \in 1..Len(entries) :
                    \/ entries[q].score > entries[p].score
                    \/ entries[q].score = entries[p].score /\ q < p})

\* C20: in every bucket of the returned recommendations the selected items are
\* the first cap items of the bucket's candidates sorted by composite score,
\* highest first, candidates of equal score in catalog order.
C20_StableSelection ==
    WishlistDone =>
        /\ ret.kind = "return"
        /\ \A b \in 1..Len(ret.value.recommendations) :
              LET bucket == ret.value.recommendations[b]
                  entries == BucketEntries(call.args, bucket.category)
                  cap == ret.value.meta.per_category_cap
              IN /\ Len(bucket.items) = (IF cap < Len(entries) THEN cap ELSE Len(entries))
                 /\ \A k \in 1..Len(bucket.items) :
                       \E p \in 1..Len(entries) :
                          /\ EntriesBefore(entries, p) = k - 1
                          /\ bucket.items[k].name = entries[p].item.name
                          /\ bucket.items[k].product_url = entries[p].item.product_url
                          /\ bucket.items[k].score = entries[p].score

----------------------------------------------------------------------------
(* Properties of the request's meta record *)

\* what the aggregator returns for the request: [items, errors]
RequestLoaded(args) ==
    load_catalog([include_static |-> args.include_static,
                  include_musinsa |-> args.include_musinsa,
                  include_kream |-> args.include_kream,
                  musinsa_limit |-> IF args.musinsa_limit /= NoInt THEN args.musinsa_limit
                                    ELSE Max(args.limit_total, 1),
                  kream_limit |-> IF args.kream_limit /= NoInt THEN args.kream_limit
                                  ELSE Max(args.limit_total, 1),
                  include_meta |-> TRUE],
                 static_catalog, musinsa_site, kream_site).value

\* the number of catalog items of a source, an item without one being static
ItemsOfSource(catalog, source) ==
    Cardinality({i \in 1..Len(catalog) :
                    (IF catalog[i].source = Absent THEN "static" ELSE catalog[i].source) = source})

\* C21: the returned meta agrees with the result: total_candidates is the
\* number of catalog items and the sum of source_counts, which counts each
\* source's items; total_selected is the number of returned recommendations
\* and at most total_candidates; per_category_cap is the cap every bucket was
\* cut to; errors is the aggregator's error list.
C21_MetaConsistent ==
    WishlistDone =>
        /\ ret.kind = "return"
        /\ LET meta == ret.value.meta
               recs == ret.value.recommendations
               catalog == RequestLoaded(call.args).items
               counts == meta.source_counts
           IN /\ meta.total_candidates = Len(catalog)
              /\ \A source \in DOMAIN counts :
                    counts[source] = ItemsOfSource(catalog, source) /\ counts[source] > 0
              /\ \A i \in 1..Len(catalog) :
                    (IF catalog[i].source = Absent THEN "static" ELSE catalog[i].source)
                        \in DOMAIN counts
              /\ meta.total_selected = SumSeq([b \in 1..Len(recs) |-> Len(recs[b].items)])
              /\ meta.total_selected <= meta.total_candidates
              /\ \A b \in 1..Len(recs) :
                    LET size == Len(BucketEntries(call.args, recs[b].category))
                    IN Len(recs[b].items) =
                          (IF meta.per_category_cap < size THEN meta.per_category_cap ELSE size)
              /\ meta.errors = RequestLoaded(call.args).errors

----------------------------------------------------------------------------
(* Properties of the rationale *)

\* the place of a reason in the fixed order
ReasonRank(kind) ==
    IF kind = "gap" THEN 1 ELSE IF kind = "style" THEN 2
    ELSE IF kind = "season" THEN 3 ELSE IF kind = "budget" THEN 4 ELSE 5

\* the reasons whose sub-score reaches its threshold
ReasonsDue(entry) ==
    {kind \in {"gap", "style", "season", "budget"} :
        \/ kind = "gap" /\ 10 * entry.gap_score >= 7 * Unit
        \/ kind = "style" /\ 10 * entry.style_score >= 6 * Unit
        \/ kind = "season" /\ 10 * entry.season_score >= 6 * Unit
        \/ kind = "budget" /\ 10 * entry.budget_score >= 6 * Unit}

----------------------------------------------------------------------------
(* Properties of the outfits composed from the inventory *)

RowsIn(wanted) == {inventory_df[i] : i \in {j \in 1..Len(inventory_df) :
                                                 inventory_df[j].category \in wanted}}

\* the bases of the combinations: tops x (trousers and skirts) x footwear,
\* and dresses x footwear
OutfitBases ==
    {<<t, b, f>> : t \in RowsIn({TOP}), b \in RowsIn({PANTS, SKIRT}), f \in RowsIn({SHOES})}
    \cup {<<d, f>> : d \in RowsIn({ONEPIECE}), f \in RowsIn({SHOES})}

\* the base of a returned outfit: its items up to the footwear
BaseOf(items) ==
    IF items[1].category = ONEPIECE THEN SubSeq(items, 1, 2) ELSE SubSeq(items, 1, 3)

\* C23: with footwear owned, outfit_suggestions returns
\* min(max_results, |tops|*|bottoms|*|footwear| + |dresses|*|footwear|)
\* outfits, each built on a different triple of tops x bottoms x footwear or
\* pair of dresses x footwear, in descending order of score, and no
\* combination left out scores higher than one returned; one top, one
\* trousers and one footwear item with no preference give exactly one outfit,
\* scored with the style defaults 0.6 / 0.4 and the season default 0.5.
C23_OutfitEnumeration ==
    (call.op = "outfit_suggestions" /\ Owns(SHOES)) =>
        LET outfits == ret.value
            total == Cardinality(OutfitBases)
            returned == {BaseOf(outfits[i].items) : i \in 1..Len(outfits)}
            combos == OutfitCombos(inventory_df, profile)
        IN /\ Len(outfits) = (IF call.max_results < total THEN call.max_results ELSE total)
           /\ returned \subseteq OutfitBases
           /\ Cardinality(returned) = Len(outfits)
           /\ \A i \in 1..(Len(outfits) - 1) : outfits[i].score >= outfits[i + 1].score
           /\ \A k \in 1..Len(combos) :
                 (BaseOf(combos[k]) \notin returned) =>
                    LET f == OutfitScoreFraction(combos[k], profile)
                    IN 2 * 1000 * f.num <= (2 * outfits[Len(outfits)].score + 1) * f.den
           /\ (/\ Len(inventory_df) = 3
               /\ Cardinality(RowsIn({TOP})) = 1 /\ Cardinality(RowsIn({PANTS})) = 1
               /\ Cardinality(RowsIn({SHOES})) = 1
               /\ profile.style_preferences = TagList(<<>>) /\ profile.season = TagList(<<>>)) =>
                 LET tagged == Cardinality({i \in 1..3 : inventory_df[i].style_tags.toks /= <<>>})
                     num == 5 * (tagged * 6 * Tenth + (3 - tagged) * 4 * Tenth)
                            + 3 * DominantCount(inventory_df) * Unit + 2 * 3 * 5 * Tenth
                 IN /\ Len(outfits) = 1
                    /\ outfits[1].score * 30 * Unit = 1000 * num

\* the scenario: a white shirt, black slacks and sneakers, no preference
C23_Witness ==
    /\ call.op = "outfit_suggestions"
    /\ inventory_df = RowsOf({1, 3, 6})
    /\ profile.style_preferences = TagList(<<>>) /\ profile.season = TagList(<<>>)
    /\ Len(ret.value) = 1
    /\ ret.value[1].score = 700

\* more combinations than max_results: the best two of four
C23_WitnessCut ==
    /\ call.op = "outfit_suggestions"
    /\ call.max_results = 2
    /\ Cardinality(OutfitBases) = 4
    /\ Len(ret.value) = 2
    /\ ret.value[1].score > ret.value[2].score

\* the layers the owned outer layers and headwear add to a combination: the
\* first outer layer of maximal style alignment, then the first headwear of
\* maximal season alignment
LayersOf(df, prof) ==
    LET outers == _inventory_by_category(df, OUTER)
        caps == _inventory_by_category(df, CAP)
    IN (IF outers = <<>> THEN <<>>
        ELSE <<outers[FirstMaxIndex(StyleKeys(outers, prof))]>>)
       \o (IF caps = <<>> THEN <<>>
           ELSE <<caps[FirstMaxIndex(SeasonKeys(caps, prof))]>>)

\* C24: every outfit returned by outfit_suggestions, built on a top, a bottom
\* and footwear or on a dress and footwear, carries after its base the first
\* owned outer layer of maximal style alignment when an outer layer is owned
\* and the first owned headwear of maximal season alignment when headwear is
\* owned, and nothing else.
C24_LayersAppended ==
    call.op = "outfit_suggestions" =>
        \A i \in 1..Len(ret.value) :
            LET items == ret.value[i].items
            IN items = BaseOf(items) \o LayersOf(inventory_df, profile)

----------------------------------------------------------------------------
(* Properties of the catalog-anchored completion *)

CategoriesOf(items) == [i \in 1..Len(items) |-> items[i].category]

RECURSIVE OwnedOf(_)
OwnedOf(wanted) ==
    IF wanted = <<>> THEN <<>>
    ELSE (IF Owns(Head(wanted)) THEN <<Head(wanted)>> ELSE <<>>)
         \o OwnedOf(Tail(wanted))

\* the categories a completion tries to fill, with trousers counted among
\* "every other category"
RequiredAsStated(category) ==
    CASE category = TOP -> <<PANTS, SHOES>>
      [] category = SHOES -> <<TOP, PANTS>>
      [] OTHER -> <<TOP, PANTS, SHOES>>

\* the same, with a trousers candidate requiring a top and footwear
RequiredAmended(category) ==
    CASE category = TOP -> <<PANTS, SHOES>>
      [] category = PANTS -> <<TOP, SHOES>>
      [] category = SHOES -> <<TOP, PANTS>>
      [] OTHER -> <<TOP, PANTS, SHOES>>

\* C25 as stated: the supporting items of a completion are of the owned
\* categories among trousers + footwear for a top, top + trousers for
\* footwear and top + trousers + footwear for every other candidate, in that
\* order.
C25_RequiredAsStated ==
    (call.op = "_build_catalog_outfit" /\ ret.kind = "return") =>
        CategoriesOf(Tail(ret.value)) = OwnedOf(RequiredAsStated(call.catalog_item.category))

\* C25, amended: a candidate without a category key raises KeyError; for any
\* other candidate the completion starts with the candidate, and its
\* supporting items are of the owned categories among trousers + footwear for
\* a top, top + footwear for trousers, top + trousers for footwear and
\* top + trousers + footwear for every other category, in that order; a top,
\* trousers or footwear candidate never gets a supporting item of its own
\* category.
C25_RequiredCategories ==
    call.op = "_build_catalog_outfit" =>
        LET category == call.catalog_item.category
        IN /\ ret.kind = "raise" <=> category = Absent
           /\ ret.kind = "return" =>
                /\ Head(ret.value) = call.catalog_item
                /\ CategoriesOf(Tail(ret.value)) = OwnedOf(RequiredAmended(category))
                /\ category \in {TOP, PANTS, SHOES} =>
                      \A i \in 2..Len(ret.value) : ret.value[i].category /= category

\* a trousers candidate completed by an owned top and footwear, the owned
\* trousers left out
C25_Witness ==
    /\ call.op = "_build_catalog_outfit"
    /\ call.catalog_item = M2
    /\ Owns(PANTS)
    /\ ret.kind = "return"
    /\ CategoriesOf(ret.value) = <<PANTS, TOP, SHOES>>

StyleOf(row) == _style_alignment(row.style_tags, profile.style_preferences)

SeasonOf(row) == _season_alignment(row.season, profile.season)

\* row a ranks above row b: the style alignment decides, the season alignment
\* among equal style alignments
RanksAbove(a, b) ==
    \/ StyleOf(a) > StyleOf(b)
    \/ StyleOf(a) = StyleOf(b) /\ SeasonOf(a) > SeasonOf(b)

\* C26: for each required category of a completion exactly one owned item of
\* that category is selected when one is owned: no owned item of the category
\* ranks above it by (style alignment, season alignment), and none that ranks
\* equal comes before it in the inventory; a required category that is not
\* owned contributes nothing and the others are still filled.
C26_BestMatches ==
    (call.op = "_build_catalog_outfit" /\ ret.kind = "return") =>
        LET supporting == Tail(ret.value)
            required == RequiredAmended(call.catalog_item.category)
        IN /\ \A k \in 1..Len(required) :
                 Cardinality({i \in 1..Len(supporting) :
                                 supporting[i].category = required[k]})
                     = (IF Owns(required[k]) THEN 1 ELSE 0)
           /\ \A i \in 1..Len(supporting) :
                 \E j \in 1..Len(inventory_df) :
                    /\ inventory_df[j] = supporting[i]
                    /\ \A h \in 1..Len(inventory_df) :
                          inventory_df[h].category = supporting[i].category =>
                             /\ ~RanksAbove(inventory_df[h], inventory_df[j])
                             /\ h < j => RanksAbove(inventory_df[j], inventory_df[h])

\* a footwear candidate with no trousers owned: of two tops the later one is
\* chosen for its style alignment although the earlier one suits the season
\* better
C26_Witness ==
    /\ call.op = "_build_catalog_outfit"
    /\ call.catalog_item = M3
    /\ ~Owns(PANTS)
    /\ \E i, j \in 1..Len(inventory_df) :
          /\ i < j
          /\ inventory_df[i].category = TOP
          /\ SeasonOf(inventory_df[i]) > SeasonOf(inventory_df[j])
          /\ ret.kind = "return"
          /\ ret.value = <<M3, inventory_df[j]>>

\* two tops of equal rank: the first one of the inventory is chosen
C26_WitnessTie ==
    /\ call.op = "_build_catalog_outfit"
    /\ \E i, j \in 1..Len(inventory_df) :
          /\ i < j
          /\ inventory_df[i].category = TOP /\ inventory_df[j].category = TOP
          /\ ~RanksAbove(inventory_df[i], inventory_df[j])
          /\ ~RanksAbove(inventory_df[j], inventory_df[i])
          /\ ret.kind = "return"
          /\ \E k \in 1..Len(ret.value) : k > 1 /\ ret.value[k] = inventory_df[i]

----------------------------------------------------------------------------
(* Properties of the static refresh *)

\* the product URLs recorded in the static catalog file
StaticUrls ==
    {static_catalog.records[i].product_url :
        i \in {j \in 1..Len(static_catalog.records) :
                  Truthy(static_catalog.records[j].product_url)}}

\* C27: a request with refresh_static configured and the static catalog
\* included completes, refreshed or not, with every static entry that has a
\* recorded product URL kept in the catalog it reports on: the request
\* returns, and its meta counts at least one static item per recorded URL.
C27_RefreshKeepsStatic ==
    (/\ WishlistDone
     /\ call.args.refresh_static /\ call.args.include_static
     /\ StaticUrls /= {}) =>
        /\ ret.kind = "return"
        /\ "static" \in DOMAIN ret.value.meta.source_counts
        /\ ret.value.meta.source_counts["static"] >= Cardinality(StaticUrls)

----------------------------------------------------------------------------
(* Properties of the paginated fetch *)

\* a fetch is under way or over, past the host check
Paging == call.op = "fetch_musinsa_catalog" /\ musinsa_site.resolvable

\* the page yields at least one parseable item
Usable(page) ==
    page.status = "ok" /\ \E i \in 1..Len(page.nodes) : page.nodes[i] /= "junk"

\* the items of the first n pages of section c
RECURSIVE Collected(_, _)
Collected(c, n) ==
    IF n = 0 THEN <<>>
    ELSE Collected(c, n - 1) \o page_items(PageAt(musinsa_site, c, n).nodes, categories[c])

\* what the sections up to c contribute: for each, the items of the pages
\* requested, cut to the limit
RECURSIVE Kept(_)
Kept(c) ==
    IF c = 0 THEN <<>>
    ELSE Kept(c - 1) \o Take(Collected(c, fetch.requests[c]), call.limit)

\* C28: a requested page that fails with a request error other than 5xx or
\* connection, or that yields no parseable item, is the last page requested
\* of its category; the fetch then returns the items collected in every
\* category (deduplicated and cut to the limit), having gone on to the next
\* category while fewer than limit items were gathered; the fetch raises
\* exactly when the host does not resolve or a page answers 5xx or the
\* connection fails, with an error text of its own for each.
C28_PageFailureEndsCategory ==
    /\ (call.op = "fetch_musinsa_catalog" /\ ~musinsa_site.resolvable) =>
          ret = Raise("RuntimeError", MusinsaFaultMessage("dns"))
    /\ Paging =>
          /\ \A c \in 1..Len(categories) : \A n \in 1..fetch.requests[c] :
                LET page == PageAt(musinsa_site, c, n)
                IN /\ ~Usable(page) => fetch.requests[c] = n
                   /\ page.status \in {"5xx", "conn"} =>
                         ret = Raise("RuntimeError", MusinsaFaultMessage(page.status))
          /\ ret.kind = "raise" =>
                \E c \in 1..Len(categories) :
                   /\ fetch.requests[c] >= 1
                   /\ PageAt(musinsa_site, c, fetch.requests[c]).status \in {"5xx", "conn"}
          /\ ret.kind = "return" =>
                /\ ret.value = Take(sources_deduplicate(Kept(Len(categories))), call.limit)
                /\ \A c \in 1..(Len(categories) - 1) :
                      Len(Kept(c)) < call.limit => fetch.requests[c + 1] >= 1
    /\ MusinsaFaultMessage("dns") /= MusinsaFaultMessage("5xx")
    /\ MusinsaFaultMessage("conn") /= MusinsaFaultMessage("5xx")

\* the state part of C29
PaginationBounded ==
    Paging =>
        /\ \A c \in 1..Len(categories) :
              /\ fetch.requests[c] <= PageBound
              /\ \A n \in 1..(fetch.requests[c] - 1) :
                    /\ Len(Collected(c, n)) < call.limit
                    /\ Usable(PageAt(musinsa_site, c, n))
        /\ ret.kind = "return" => Len(ret.value) <= call.limit

\* C29: every fetch comes to its end; in each category no page is requested
\* after limit items were collected there or after a page that returned no
\* parseable item, and never more than 20 pages; the returned list has at
\* most limit items.
C29_PaginationTerminates ==
    /\ []PaginationBounded
    /\ <>(fetch.pc = "done")

----------------------------------------------------------------------------
(* Properties of the render cycle *)

\* the error list of the request made with the given options
RequestErrors(options) == RequestLoaded(request_args(options)).errors

\* C30: a render whose request had a source enabled and got an error naming
\* it leaves that source's option false; otherwise the option is what the
\* request used, and so is include_static; the request uses the session's
\* options except where the user clicked a checkbox, so a source switched
\* off stays out of the requests until the user switches it on.
C30_FailedSourceDisabled ==
    [][call'.op = "main" =>
          LET req == call'.options
              errors == RequestErrors(req)
          IN /\ \A flag \in OptionFlags \ call'.toggled : req[flag] = catalog_options[flag]
             /\ catalog_options'.include_musinsa =
                   (req.include_musinsa /\ ~AnyNames(errors, {"<Musinsa>"}))
             /\ catalog_options'.include_kream =
                   (req.include_kream /\ ~AnyNames(errors, {"KREAM", "<Keurim>"}))
             /\ catalog_options'.include_static = req.include_static]_vars

====
